---------------------------- MODULE Spec2Model ----------------------------
(***************************************************************************)
(* History feed extension: blacklist rule matcher (extension/config.js),   *)
(* feed loading and pagination, chat (feed script), domain statistics      *)
(* (statistics script).                                                    *)
(*                                                                         *)
(* JavaScript strings are modelled as sequences of one-character strings,  *)
(* so that toLowerCase, includes, replace and RegExp act on characters.    *)
(***************************************************************************)
EXTENDS Integers, Sequences, FiniteSets, TLC

-----------------------------------------------------------------------------
(* String primitives                                                       *)

UpperChars == <<"A","B","C","D","E","F","G","H","I","J","K","L","M","N","O","P","Q","R","S","T","U","V","W","X","Y","Z">>

LowerChars == <<"a","b","c","d","e","f","g","h","i","j","k","l","m","n","o","p","q","r","s","t","u","v","w","x","y","z">>

DigitChars == {"0","1","2","3","4","5","6","7","8","9"}

IsUpper(c) == \E i \in 1..Len(UpperChars) : UpperChars[i] = c

IsAlpha(c) == IsUpper(c) \/ \E i \in 1..Len(LowerChars) : LowerChars[i] = c

\* String.prototype.toLowerCase, one character
toLowerChar(c) ==
  IF IsUpper(c)
    THEN LowerChars[CHOOSE i \in 1..Len(UpperChars) : UpperChars[i] = c]
    ELSE c

\* String.prototype.toLowerCase
\* a toLowerCase that returns its receiver
toLowerCase_Identity(s) == s

toLowerCase(s) == [i \in 1..Len(s) |-> toLowerChar(s[i])]

\* s.slice(i - 1): the characters of s from position i (1-based) on
Tail_(s, i) == SubSeq(s, i, Len(s))

\* String.prototype.startsWith at position i (1-based)
StartsWithAt(s, i, p) ==
  /\ i + Len(p) - 1 <= Len(s)
  /\ \A k \in 1..Len(p) : s[i + k - 1] = p[k]

\* String.prototype.includes: scan the start positions left to right
RECURSIVE IncludesFrom(_, _, _)
IncludesFrom(s, p, i) ==
  IF i + Len(p) - 1 > Len(s) THEN FALSE
  ELSE IF StartsWithAt(s, i, p) THEN TRUE
  ELSE IncludesFrom(s, p, i + 1)

\* a test at the first position only
includes_AtStart(s, p) == StartsWithAt(s, 1, p)

includes(s, p) == IncludesFrom(s, p, 1)

\* String.prototype.indexOf for a set of characters, from position i;
\* Len(s) + 1 when none occurs
RECURSIVE IndexOfAny(_, _, _)
IndexOfAny(s, cs, i) ==
  IF i > Len(s) THEN Len(s) + 1
  ELSE IF s[i] \in cs THEN i
  ELSE IndexOfAny(s, cs, i + 1)

\* position of the last occurrence of character c in s, 0 when none
RECURSIVE LastIndexOf(_, _, _)
LastIndexOf(s, c, i) ==
  IF i < 1 THEN 0
  ELSE IF s[i] = c THEN i
  ELSE LastIndexOf(s, c, i - 1)

-----------------------------------------------------------------------------
(* new URL(url): the parts of the URL parser that decide whether a string  *)
(* parses and what its hostname is.  Input alphabet: no leading or         *)
(* trailing blanks, no tabs or newlines, no IPv6 literals; of the file:      *)
(* URLs those of the form file:///path, whose hostname is empty.           *)

SpecialSchemes ==
  { <<"h","t","t","p">>, <<"h","t","t","p","s">>, <<"f","t","p">>, <<"w","s">>, <<"w","s","s">> }

SchemeChars == DigitChars \cup {"+", "-", "."}

ForbiddenHostChars == {" ", "#", "/", ":", "<", ">", "?", "@", "[", "\\", "]", "^", "|", "%"}

\* number of leading characters of s, from position i, that are in cs
RECURSIVE SkipWhile(_, _, _)
SkipWhile(s, cs, i) ==
  IF i <= Len(s) /\ s[i] \in cs THEN SkipWhile(s, cs, i + 1) ELSE i

\* the host of an authority "userinfo@host:port"; ok is FALSE for a bad port
HostOfAuthority(auth) ==
  LET at       == LastIndexOf(auth, "@", Len(auth))
      hostport == Tail_(auth, at + 1)
      colon    == IndexOfAny(hostport, {":"}, 1)
      port     == Tail_(hostport, colon + 1)
  IN  [ ok   |-> \A k \in 1..Len(port) : port[k] \in DigitChars,
        host |-> SubSeq(hostport, 1, colon - 1) ]

\* new URL(url) without a base: [ok |-> FALSE] stands for the TypeError
ParseURL(url) ==
  LET colon   == IndexOfAny(url, {":"}, 1)
      scheme  == toLowerCase(SubSeq(url, 1, colon - 1))
      okSch   == /\ 1 < colon
                 /\ colon <= Len(url)
                 /\ IsAlpha(url[1])
                 /\ \A k \in 1..Len(scheme) : IsAlpha(scheme[k]) \/ scheme[k] \in SchemeChars
      special == scheme \in SpecialSchemes
      slashes == IF special THEN SkipWhile(url, {"/", "\\"}, colon + 1)
                 ELSE IF StartsWithAt(url, colon + 1, <<"/", "/">>) THEN colon + 3
                 ELSE 0
      stop    == IndexOfAny(url, IF special THEN {"/", "\\", "?", "#"} ELSE {"/", "?", "#"}, slashes)
      hp      == HostOfAuthority(SubSeq(url, slashes, stop - 1))
  IN  IF ~okSch THEN [ok |-> FALSE, hostname |-> <<>>]
      ELSE IF slashes = 0 THEN [ok |-> TRUE, hostname |-> <<>>]
      ELSE IF ~hp.ok THEN [ok |-> FALSE, hostname |-> <<>>]
      ELSE IF special /\ hp.host = <<>> THEN [ok |-> FALSE, hostname |-> <<>>]
      ELSE IF \E k \in 1..Len(hp.host) : hp.host[k] \in ForbiddenHostChars
        THEN [ok |-> FALSE, hostname |-> <<>>]
      ELSE [ok |-> TRUE, hostname |-> IF special THEN toLowerCase(hp.host) ELSE hp.host]

-----------------------------------------------------------------------------
(* RegExp: the syntax the matcher's generated sources can contain.         *)
(* A compiled expression is a sequence of atoms                            *)
(*   [kind : "lit" | "any" | "bol" | "eol", ch, q : "1" | "*" | "+" | "?"] *)
(* Rule alphabet: no ")", "[", "]", "{", "}", "|", "\", "^", "$", so that  *)
(* an unescaped "(" is always an unterminated group.                       *)

Quantifiers == {"*", "+", "?"}

Atom(kind, ch, q) == [kind |-> kind, ch |-> ch, q |-> q]

\* the quantifier that follows an atom ending before position i:
\* [ok, q, next]; a quantifier applied to a quantifier is a SyntaxError,
\* except the "?" that makes the first one lazy
QuantifierAt(src, i) ==
  IF i > Len(src) \/ src[i] \notin Quantifiers
    THEN [ok |-> TRUE, q |-> "1", next |-> i]
    ELSE LET j == IF i + 1 <= Len(src) /\ src[i + 1] = "?" THEN i + 2 ELSE i + 1
         IN  [ ok   |-> ~(j <= Len(src) /\ src[j] \in Quantifiers),
               q    |-> src[i],
               next |-> j ]

\* new RegExp(src): [ok |-> FALSE] stands for the SyntaxError
RECURSIVE RegExpParse(_, _, _)
RegExpParse(src, i, atoms) ==
  IF i > Len(src) THEN [ok |-> TRUE, atoms |-> atoms]
  ELSE LET c == src[i] IN
    IF c = "^" THEN RegExpParse(src, i + 1, Append(atoms, Atom("bol", "", "1")))
    ELSE IF c = "$" THEN RegExpParse(src, i + 1, Append(atoms, Atom("eol", "", "1")))
    ELSE IF c \in Quantifiers THEN [ok |-> FALSE, atoms |-> <<>>]
    ELSE IF c = "(" THEN [ok |-> FALSE, atoms |-> <<>>]
    ELSE IF c = "\\" /\ i = Len(src) THEN [ok |-> FALSE, atoms |-> <<>>]
    ELSE LET kind == IF c = "." THEN "any" ELSE "lit"
             ch   == IF c = "\\" THEN src[i + 1] ELSE IF c = "." THEN "" ELSE c
             qa   == QuantifierAt(src, IF c = "\\" THEN i + 2 ELSE i + 1)
         IN  IF ~qa.ok THEN [ok |-> FALSE, atoms |-> <<>>]
             ELSE RegExpParse(src, qa.next, Append(atoms, Atom(kind, ch, qa.q)))

RegExp(src) == RegExpParse(src, 1, <<>>)

AtomAccepts(a, c) == a.kind = "any" \/ (a.kind = "lit" /\ a.ch = c)

\* backtracking match of the atoms from the k-th on against s from position i
RECURSIVE MatchFrom(_, _, _, _)
MatchFrom(atoms, k, s, i) ==
  IF k > Len(atoms) THEN TRUE
  ELSE LET a == atoms[k] IN
    IF a.kind = "bol" THEN i = 1 /\ MatchFrom(atoms, k + 1, s, i)
    ELSE IF a.kind = "eol" THEN i = Len(s) + 1 /\ MatchFrom(atoms, k + 1, s, i)
    ELSE LET here == i <= Len(s) /\ AtomAccepts(a, s[i]) IN
      CASE a.q = "1" -> here /\ MatchFrom(atoms, k + 1, s, i + 1)
        [] a.q = "?" -> (here /\ MatchFrom(atoms, k + 1, s, i + 1)) \/ MatchFrom(atoms, k + 1, s, i)
        [] a.q = "*" -> (here /\ MatchFrom(atoms, k, s, i + 1)) \/ MatchFrom(atoms, k + 1, s, i)
        [] a.q = "+" -> here /\ (MatchFrom(atoms, k, s, i + 1) \/ MatchFrom(atoms, k + 1, s, i + 1))

\* RegExp.prototype.test: a match starting at any position
RegExpTest(atoms, s) == \E i \in 1..(Len(s) + 1) : MatchFrom(atoms, 1, s, i)

\* String.prototype.replace(/\./g, '\\.')
RECURSIVE EscapeDots(_)
EscapeDots(p) ==
  IF p = <<>> THEN <<>>
  ELSE (IF Head(p) = "." THEN <<"\\", ".">> ELSE <<Head(p)>>) \o EscapeDots(Tail(p))

RegexSpecialChars == {".", "+", "?", "^", "$", "{", "}", "(", ")", "|", "[", "]", "\\"}

\* String.prototype.replace(/[.+?^${}()|[\]\\]/g, '\\$&')
RECURSIVE EscapeSpecials(_)
EscapeSpecials(p) ==
  IF p = <<>> THEN <<>>
  ELSE (IF Head(p) \in RegexSpecialChars THEN <<"\\", Head(p)>> ELSE <<Head(p)>>)
       \o EscapeSpecials(Tail(p))

\* String.prototype.replace(/\*/g, '.*')
RECURSIVE StarsToDotStar(_)
StarsToDotStar(p) ==
  IF p = <<>> THEN <<>>
  ELSE (IF Head(p) = "*" THEN <<".", "*">> ELSE <<Head(p)>>) \o StarsToDotStar(Tail(p))

-----------------------------------------------------------------------------
(* Input strings *)

\* the characters of the strings the model is run with
Chars(s) ==
  CASE s = "" -> <<>>
    [] s = "https://site.com/app/login?x=1" -> <<"h","t","t","p","s",":","/","/","s","i","t","e",".","c","o","m","/","a","p","p","/","l","o","g","i","n","?","x","=","1">>
    [] s = "https://site.com/app/logout" -> <<"h","t","t","p","s",":","/","/","s","i","t","e",".","c","o","m","/","a","p","p","/","l","o","g","o","u","t">>
    [] s = "http://x.ads.com/" -> <<"h","t","t","p",":","/","/","x",".","a","d","s",".","c","o","m","/">>
    [] s = "http://a.b.ads.com/p" -> <<"h","t","t","p",":","/","/","a",".","b",".","a","d","s",".","c","o","m","/","p">>
    [] s = "http://ads.com/" -> <<"h","t","t","p",":","/","/","a","d","s",".","c","o","m","/">>
    [] s = "http://badsads.com/" -> <<"h","t","t","p",":","/","/","b","a","d","s","a","d","s",".","c","o","m","/">>
    [] s = "https://www.facebook.com/" -> <<"h","t","t","p","s",":","/","/","w","w","w",".","f","a","c","e","b","o","o","k",".","c","o","m","/">>
    [] s = "https://facebook.co.uk/" -> <<"h","t","t","p","s",":","/","/","f","a","c","e","b","o","o","k",".","c","o",".","u","k","/">>
    [] s = "http://myfacebookapp.net/" -> <<"h","t","t","p",":","/","/","m","y","f","a","c","e","b","o","o","k","a","p","p",".","n","e","t","/">>
    [] s = "https://example.com/" -> <<"h","t","t","p","s",":","/","/","e","x","a","m","p","l","e",".","c","o","m","/">>
    [] s = "https://example.com/a" -> <<"h","t","t","p","s",":","/","/","e","x","a","m","p","l","e",".","c","o","m","/","a">>
    [] s = "https://example.com/b?q=1" -> <<"h","t","t","p","s",":","/","/","e","x","a","m","p","l","e",".","c","o","m","/","b","?","q","=","1">>
    [] s = "https://www.example.com/a" -> <<"h","t","t","p","s",":","/","/","w","w","w",".","e","x","a","m","p","l","e",".","c","o","m","/","a">>
    [] s = "https://evil-example.com/" -> <<"h","t","t","p","s",":","/","/","e","v","i","l","-","e","x","a","m","p","l","e",".","c","o","m","/">>
    [] s = "HTTPS://Example.COM/Login" -> <<"H","T","T","P","S",":","/","/","E","x","a","m","p","l","e",".","C","O","M","/","L","o","g","i","n">>
    [] s = "http://ads.com/?utm_source=x" -> <<"h","t","t","p",":","/","/","a","d","s",".","c","o","m","/","?","u","t","m","_","s","o","u","r","c","e","=","x">>
    [] s = "http://x.add.com/" -> <<"h","t","t","p",":","/","/","x",".","a","d","d",".","c","o","m","/">>
    [] s = "http://u@example.com:80/x" -> <<"h","t","t","p",":","/","/","u","@","e","x","a","m","p","l","e",".","c","o","m",":","8","0","/","x">>
    [] s = "example.com/login" -> <<"e","x","a","m","p","l","e",".","c","o","m","/","l","o","g","i","n">>
    [] s = "http:///" -> <<"h","t","t","p",":","/","/","/">>
    [] s = "not a url/login" -> <<"n","o","t"," ","a"," ","u","r","l","/","l","o","g","i","n">>
    [] s = "example.com" -> <<"e","x","a","m","p","l","e",".","c","o","m">>
    [] s = "Example.COM" -> <<"E","x","a","m","p","l","e",".","C","O","M">>
    [] s = "*.ads.com" -> <<"*",".","a","d","s",".","c","o","m">>
    [] s = "*facebook*" -> <<"*","f","a","c","e","b","o","o","k","*">>
    [] s = "*.ad+.com" -> <<"*",".","a","d","+",".","c","o","m">>
    [] s = "(*" -> <<"(","*">>
    [] s = "/login" -> <<"/","l","o","g","i","n">>
    [] s = "/LOGIN" -> <<"/","L","O","G","I","N">>
    [] s = "*?utm_source=*" -> <<"*","?","u","t","m","_","s","o","u","r","c","e","=","*">>
    [] s = "site.com/app" -> <<"s","i","t","e",".","c","o","m","/","a","p","p">>
    [] s = "http://ads.com/?a=1&utm_source=x" -> <<"h","t","t","p",":","/","/","a","d","s",".","c","o","m","/","?","a","=","1","&","u","t","m","_","s","o","u","r","c","e","=","x">>
    [] s = "https://Site.COM/App/LOGIN?X=1" -> <<"h","t","t","p","s",":","/","/","S","i","t","e",".","C","O","M","/","A","p","p","/","L","O","G","I","N","?","X","=","1">>
    [] s = "co" -> <<"c","o">>
    [] s = "com" -> <<"c","o","m">>
    [] s = "org" -> <<"o","r","g">>
    [] s = "ac" -> <<"a","c">>
    [] s = "gov" -> <<"g","o","v">>
    [] s = "edu" -> <<"e","d","u">>
    [] s = "net" -> <<"n","e","t">>
    [] s = "www" -> <<"w","w","w">>
    [] s = "example" -> <<"e","x","a","m","p","l","e">>
    [] s = "uk" -> <<"u","k">>
    [] s = "blog" -> <<"b","l","o","g">>
    [] s = "www.example.co.uk" -> <<"w","w","w",".","e","x","a","m","p","l","e",".","c","o",".","u","k">>
    [] s = "blog.example.com" -> <<"b","l","o","g",".","e","x","a","m","p","l","e",".","c","o","m">>
    [] s = "example.co.uk" -> <<"e","x","a","m","p","l","e",".","c","o",".","u","k">>
    [] s = "https://www.example.co.uk/" -> <<"h","t","t","p","s",":","/","/","w","w","w",".","e","x","a","m","p","l","e",".","c","o",".","u","k","/">>
    [] s = "https://blog.example.com/" -> <<"h","t","t","p","s",":","/","/","b","l","o","g",".","e","x","a","m","p","l","e",".","c","o","m","/">>
    [] s = "https://" -> <<"h","t","t","p","s",":","/","/">>
    [] s = "N/A" -> <<"N","/","A">>
    [] s = "hi" -> <<"h","i">>
    [] s = "bad" -> <<"b","a","d">>
    [] s = "ads.com" -> <<"a","d","s",".","c","o","m">>
    [] s = "file:///home/a.html" -> <<"f","i","l","e",":","/","/","/","h","o","m","e","/","a",".","h","t","m","l">>

-----------------------------------------------------------------------------
(* Blacklist (extension/config.js)                                         *)

\* a result of a call that may throw
Returned(v) == [threw |-> FALSE, value |-> v]

Threw == [threw |-> TRUE, value |-> FALSE]

\* pattern.includes('*')
HasWildcard(pattern) == \E k \in 1..Len(pattern) : pattern[k] = "*"

\* a domain test by containment instead of equality
_matchDomain_Contains(hostname, pattern) == Returned(includes(hostname, pattern))

\* Blacklist._matchDomain(hostname, pattern)
_matchDomain(hostname, pattern) ==
  IF hostname = pattern THEN Returned(TRUE)
  ELSE IF HasWildcard(pattern)
    THEN LET regexPattern == StarsToDotStar(EscapeDots(pattern))
             regex        == RegExp(<<"^">> \o regexPattern \o <<"$">>)
         IN  IF regex.ok THEN Returned(RegExpTest(regex.atoms, hostname)) ELSE Threw
  ELSE Returned(FALSE)

\* Blacklist._matchPattern(url, pattern)
_matchPattern(url, pattern) ==
  IF ~HasWildcard(pattern) THEN Returned(includes(url, pattern))
  ELSE LET regexPattern == StarsToDotStar(EscapeSpecials(pattern))
           regex        == RegExp(regexPattern)
       IN  IF regex.ok THEN Returned(RegExpTest(regex.atoms, url)) ELSE Threw

\* for (const domainPattern of this.rules.domains): the first rule that
\* matches or throws ends the loop
RECURSIVE DomainLoop(_, _, _)
DomainLoop(hostname, domains, i) ==
  IF i > Len(domains) THEN Returned(FALSE)
  ELSE LET r == _matchDomain(hostname, toLowerCase(Chars(domains[i])))
       IN  IF r.threw \/ r.value THEN r ELSE DomainLoop(hostname, domains, i + 1)

\* for (const urlPattern of this.rules.patterns)
RECURSIVE PatternLoop(_, _, _)
PatternLoop(fullUrl, patterns, i) ==
  IF i > Len(patterns) THEN Returned(FALSE)
  ELSE LET r == _matchPattern(fullUrl, toLowerCase(Chars(patterns[i])))
       IN  IF r.threw \/ r.value THEN r ELSE PatternLoop(fullUrl, patterns, i + 1)

\* a matches that goes on to the pattern rules when the url does not parse
matches_PatternsOnRawUrl(rules, url) ==
  LET urlObj == ParseURL(Chars(url))
      d == IF urlObj.ok THEN DomainLoop(toLowerCase(urlObj.hostname), rules.domains, 1)
           ELSE Returned(FALSE)
      p == PatternLoop(toLowerCase(Chars(url)), rules.patterns, 1)
  IN  IF d.threw THEN FALSE
      ELSE IF d.value THEN TRUE
      ELSE IF p.threw THEN FALSE ELSE p.value

\* Blacklist.matches(url): the catch block turns every throw into false
matches(rules, url) ==
  LET urlObj == ParseURL(Chars(url))
  IN  IF ~urlObj.ok THEN FALSE
      ELSE LET hostname == toLowerCase(urlObj.hostname)
               fullUrl  == toLowerCase(Chars(url))
               d        == DomainLoop(hostname, rules.domains, 1)
           IN  IF d.threw THEN FALSE
               ELSE IF d.value THEN TRUE
               ELSE LET p == PatternLoop(fullUrl, rules.patterns, 1)
                    IN  IF p.threw THEN FALSE ELSE p.value

-----------------------------------------------------------------------------
(* Bounds of the input sets                                                *)

\* longest history of arbitrary records
MaxShort == 2

\* longest history of the paging scenarios (more than two batches)
MaxRecords == 45

\* largest lastVisitTime of an arbitrary record
MaxTime == 2

\* loadMoreHistory invocations considered in one run
MaxInvocations == 3

\* most rules, domain and pattern rules together, given to the matcher
MaxRules == 2

\* labels of a hostname getRootDomain is run with
MaxLabels == 4

\* records chrome.history holds when the statistics page runs
MaxStatsRecords == 3

\* loadAndRenderData invocations of one statistics session
MaxLoads == 2

\* sendMessage calls that passed the guard and fetchPageContent calls of
\* one chat session, taken together
MaxChatCalls == 2

\* calls of the methods of one Blacklist instance considered in one run
MaxRuleCalls == 2

-----------------------------------------------------------------------------
(* Feed (feed script): configuration and inputs                            *)

\* CONFIG.batchSize
batchSize == 20

Rules(d, p) == [domains |-> d, patterns |-> p]

\* sequences over S of length at most n
SeqsUpTo(S, n) == UNION { [1..k -> S] : k \in 0..n }

\* blacklist.json contents the feed is run with
BlacklistFiles ==
  { Rules(<<"example.com">>, <<>>), Rules(<<"Example.COM">>, <<"/login">>) }

FeedUrls == {"https://example.com/", "https://site.com/app/logout", "not a url/login"}

\* chrome.history.search results: every short list of records, with ids in
\* list order
ShortSources ==
  { [i \in 1..Len(s) |-> [id |-> i, url |-> s[i][1], lastVisitTime |-> s[i][2]]] :
      s \in SeqsUpTo(FeedUrls \X (1..MaxTime), MaxShort) }

LongUrls ==
  << "https://example.com/", "https://example.com/a", "https://site.com/app/login?x=1",
     "https://example.com/b?q=1", "https://site.com/app/logout" >>

\* chrome.history.search results: n records of parsable URLs, not in time order
LongSource(n) ==
  [i \in 1..n |-> [id |-> i, url |-> LongUrls[((i - 1) % Len(LongUrls)) + 1], lastVisitTime |-> (i * 7) % 5]]

HistorySources == ShortSources \cup { LongSource(n) : n \in 0..MaxRecords }

\* chrome.history.getVisits({ url }) for a record of the source: visits.length
VisitsLength(item) == 1 + (item.id % 3)

\* the rule lists and urls the matcher is run with
DomainRulePool == {"example.com", "Example.COM", "*.ads.com", "*facebook*", "*.ad+.com", "(*"}

PatternRulePool == {"/login", "/LOGIN", "*?utm_source=*"}

UrlPool ==
  { "https://site.com/app/login?x=1", "http://x.ads.com/", "http://ads.com/",
    "https://www.facebook.com/",
    "https://example.com/", "https://www.example.com/a", "https://evil-example.com/",
    "HTTPS://Example.COM/Login", "http://ads.com/?utm_source=x", "http://x.add.com/",
    "http://ads.com/?a=1&utm_source=x", "https://Site.COM/App/LOGIN?X=1",
    "not a url/login" }

RuleSets ==
  UNION { { Rules(d, p) : d \in [1..n -> DomainRulePool],
                          p \in SeqsUpTo(PatternRulePool, MaxRules - n) } :
            n \in 0..MaxRules }

-----------------------------------------------------------------------------
(* State                                                                   *)

VARIABLES
  pc,             \* position of init(), or "matches" in a matcher run
  blacklist,      \* this.rules of the Blacklist instance
  searchResult,   \* what chrome.history.search returned
  state,          \* the feed's state object
  feed,           \* fragments appended to feedElement, oldest first
  emptyShown,     \* empty-state elements appended to feedElement
  pending,        \* loadMoreHistory invocations suspended on their lookups
  getVisitsCalls, \* chrome.history.getVisits calls issued so far
  invocations,    \* loadMoreHistory invocations so far
  lastReturn,     \* where the last loadMoreHistory invocation returned or suspended
  argUrl,         \* run of a pure function: the url it is given
  result,         \* run of a pure function: whether it returned, and what
  statsState,     \* statistics page: its state object
  historyDb,      \* statistics page: the records chrome.history holds
  loads,          \* statistics page: loadAndRenderData invocations in flight
  chart,          \* statistics page: the domains renderChart drew last
  summary,        \* statistics page: what updateSummaryStats wrote last
  processed,      \* statistics page: what the last finished processDomainData worked on
  statsCalls,     \* statistics page: calls and alerts counted so far
  chatState,      \* chat: the chatState object
  chatHistories,  \* chat: the chatHistories object, url -> { messages, content }
  modal,          \* chat: the chat modal in the document and its fetch button
  llmCalls,       \* chat: sendMessage invocations suspended on an await
  fetches,        \* chat: fetchPageContent invocations suspended on their fetch
  chatCalls,      \* chat: calls counted, whether an error escaped, and the
                  \* last clear with the urls it removed, if no save followed it
  llmConfig,      \* LLM gateway: this.config of the LLMService
  llmRequests,    \* LLM gateway: fetch requests issued so far
  llmResponse,    \* LLM gateway: what the fetch of the request settled with
  ruleFile,       \* rule store: what the fetch of blacklist.json gives
  overrides,      \* rule store: chrome.storage.local[Blacklist.STORAGE_KEY]
  ruleOps,        \* rule store: Blacklist method invocations suspended on an await
  ruleCalls       \* rule store: method calls counted so far

statsVars == << statsState, historyDb, loads, chart, summary, processed, statsCalls >>

chatVars == << chatState, chatHistories, modal, llmCalls, fetches, chatCalls >>

gatewayVars == << llmConfig, llmRequests, llmResponse >>

storeVars == << ruleFile, overrides, ruleOps, ruleCalls >>

\* the variables of the runs of the LLM gateway and of the rule store
libVars == << gatewayVars, storeVars >>

\* the variables of the statistics page, of the chat and of these runs
otherPages == << statsVars, chatVars, libVars >>

vars ==
  << pc, blacklist, searchResult, state, feed, emptyShown, pending, getVisitsCalls,
     invocations, lastReturn, argUrl, result, statsVars, chatVars, libVars >>

\* let state = { currentOffset: 0, isLoading: false, hasMore: true, ... }
InitialState ==
  [ currentOffset |-> 0, isLoading |-> FALSE, hasMore |-> TRUE,
    allHistory |-> <<>>, filteredCount |-> 0 ]

\* new Blacklist(): this.rules = { domains: [], patterns: [] }
NoRules == Rules(<<>>, <<>>)

NotReturned == [returned |-> FALSE, value |-> FALSE]

feedVars ==
  << searchResult, state, feed, emptyShown, pending, getVisitsCalls, invocations, lastReturn >>

\* the feed page before its script runs
FeedNotStarted ==
  /\ searchResult = <<>>
  /\ state = InitialState
  /\ feed = <<>>
  /\ emptyShown = 0
  /\ pending = <<>>
  /\ getVisitsCalls = 0
  /\ invocations = 0
  /\ lastReturn = "none"

\* let state = { timeRange: 30, topN: 20, domainData: [], chart: null }
InitialStatsState == [timeRange |-> 30, topN |-> 20, domainData |-> <<>>]

NothingProcessed == [done |-> FALSE, historyItems |-> <<>>, failed |-> {}]

\* the summary elements as the page is delivered
NoSummary == [totalVisits |-> 0, uniqueDomains |-> 0, topDomain |-> <<>>]

NoStatsCalls == [loadAndRenderData |-> 0, alerts |-> 0]

\* the statistics page before its script runs
StatsNotStarted ==
  /\ statsState = InitialStatsState
  /\ historyDb = <<>>
  /\ loads = <<>>
  /\ chart = <<>>
  /\ summary = NoSummary
  /\ processed = NothingProcessed
  /\ statsCalls = NoStatsCalls

\* let chatState = { currentPage: null, pageContent: null, messages: [], isTyping: false }
InitialChatState ==
  [currentPage |-> "null", pageContent |-> "null", messages |-> <<>>, isTyping |-> FALSE]

\* no element with id chatModal in the document
NoModal == [open |-> FALSE, fetchButton |-> "none"]

NoChatCalls ==
  [ sendMessage |-> 0, fetchPageContent |-> 0, escaped |-> FALSE,
    lastClear |-> "none", removed |-> {} ]

\* the chat before any card is clicked: let chatHistories = {}
ChatNotStarted ==
  /\ chatState = InitialChatState
  /\ chatHistories = <<>>
  /\ modal = NoModal
  /\ llmCalls = <<>>
  /\ fetches = <<>>
  /\ chatCalls = NoChatCalls

\* the value undefined
JUndefined == [t |-> "undefined", s |-> "", a |-> <<>>, names |-> <<>>]

\* no LLMService has been constructed, no request issued
NoConfig == [provider |-> "openai", apiKey |-> "", endpoint |-> ""]

NoResponse == [settled |-> "no", ok |-> FALSE, body |-> JUndefined]

GatewayNotStarted ==
  /\ llmConfig = NoConfig
  /\ llmRequests = 0
  /\ llmResponse = NoResponse

\* chrome.storage.local without the key: _loadFromStorage resolves to null
NoOverrides == [null |-> TRUE, domains |-> <<>>, patterns |-> <<>>]

\* a fetch of blacklist.json that resolves with a response that is not ok
FileNotOk == [fetch |-> "not ok", domains |-> <<>>, patterns |-> <<>>]

NoRuleCalls == [edits |-> 0, loads |-> 0]

\* no Blacklist method is run on its own
StoreNotStarted ==
  /\ ruleFile = FileNotOk
  /\ overrides = NoOverrides
  /\ ruleOps = <<>>
  /\ ruleCalls = NoRuleCalls

LibNotStarted == GatewayNotStarted /\ StoreNotStarted

Init ==
  /\ pc = "blacklist.load"
  /\ blacklist = NoRules
  /\ searchResult = <<>>
  /\ state = InitialState
  /\ feed = <<>>
  /\ emptyShown = 0
  /\ pending = <<>>
  /\ getVisitsCalls = 0
  /\ invocations = 0
  /\ lastReturn = "none"
  /\ argUrl = ""
  /\ result = NotReturned
  /\ StatsNotStarted
  /\ ChatNotStarted
  /\ LibNotStarted

-----------------------------------------------------------------------------
(* Feed operations                                                         *)

\* Blacklist.load(): the rules of blacklist.json when the fetch succeeds
\* (no override record in storage), the constructor's rules when it fails
BlacklistLoad ==
  /\ pc = "blacklist.load"
  /\ \/ \E data \in BlacklistFiles : blacklist' = Rules(data.domains, data.patterns)
     \/ blacklist' = blacklist
  /\ pc' = "loadAllHistory"
  /\ UNCHANGED << searchResult, state, feed, emptyShown, pending, getVisitsCalls,
                  invocations, lastReturn, argUrl, result, otherPages >>

\* Array.prototype.sort, insertion step for the comparator
\* (a, b) => b.lastVisitTime - a.lastVisitTime (stable)
RECURSIVE InsertByLastVisit(_, _)
InsertByLastVisit(sorted, x) ==
  IF sorted = <<>> THEN <<x>>
  ELSE IF Head(sorted).lastVisitTime >= x.lastVisitTime
    THEN <<Head(sorted)>> \o InsertByLastVisit(Tail(sorted), x)
    ELSE <<x>> \o sorted

\* historyItems.sort((a, b) => b.lastVisitTime - a.lastVisitTime)
RECURSIVE SortByLastVisit(_, _, _)
SortByLastVisit(items, i, sorted) ==
  IF i > Len(items) THEN sorted
  ELSE SortByLastVisit(items, i + 1, InsertByLastVisit(sorted, items[i]))

\* a filter callback that counts a blacklisted item and keeps it
FilterStep_KeepsCounted(rules, item, acc) ==
  IF matches(rules, item.url)
    THEN [acc EXCEPT !.filtered = @ + 1, !.kept = Append(@, item)]
    ELSE [acc EXCEPT !.kept = Append(@, item)]

\* the filter callback: [kept |-> items returned true for, filtered |-> the counter]
FilterStep(rules, item, acc) ==
  IF matches(rules, item.url)
    THEN [acc EXCEPT !.filtered = @ + 1]
    ELSE [acc EXCEPT !.kept = Append(@, item)]

\* historyItems.filter(item => ...)
RECURSIVE FilterBlacklisted(_, _, _, _)
FilterBlacklisted(rules, items, i, acc) ==
  IF i > Len(items) THEN acc
  ELSE FilterBlacklisted(rules, items, i + 1, FilterStep(rules, items[i], acc))

\* loadAllHistory(): the search returns the source's records, or fails
LoadAllHistory ==
  /\ pc = "loadAllHistory"
  /\ \/ \E found \in HistorySources :
          LET historyItems == SortByLastVisit(found, 1, <<>>)
              f == FilterBlacklisted(blacklist, historyItems, 1, [kept |-> <<>>, filtered |-> 0])
          IN  /\ searchResult' = found
              /\ state' = [state EXCEPT !.allHistory = f.kept, !.filteredCount = f.filtered]
     \/ /\ searchResult' = <<>>
        /\ state' = [state EXCEPT !.allHistory = <<>>]
  /\ pc' = "loadMoreHistory"
  /\ UNCHANGED << blacklist, feed, emptyShown, pending, getVisitsCalls, invocations,
                  lastReturn, argUrl, result, otherPages >>

\* a slice that always starts at the head of the list
getHistoryBatch_FromStart(offset, limit) ==
  SubSeq(state.allHistory, 1, IF limit <= Len(state.allHistory) THEN limit ELSE Len(state.allHistory))

\* getHistoryBatch(offset, limit): state.allHistory.slice(offset, offset + limit)
getHistoryBatch(offset, limit) ==
  SubSeq(state.allHistory, offset + 1,
         IF offset + limit <= Len(state.allHistory) THEN offset + limit ELSE Len(state.allHistory))

\* the guard without its isLoading test
LoadMoreGuard_NoLoadingTest == ~state.hasMore

\* the guard without its hasMore test
LoadMoreGuard_NoHasMoreTest == state.isLoading

\* if (state.isLoading || !state.hasMore) return;
LoadMoreGuard == state.isLoading \/ ~state.hasMore

\* loadMoreHistory() up to its await: the guard, the empty batch, or the
\* batch's lookups, all issued by the map inside Promise.all; counted says
\* whether the call and its lookups are counted in invocations and
\* getVisitsCalls
loadMoreHistoryCall(counted) ==
  /\ invocations' = IF counted THEN invocations + 1 ELSE invocations
  /\ IF LoadMoreGuard
       THEN /\ lastReturn' = IF state.isLoading THEN "guard: isLoading" ELSE "guard: !hasMore"
            /\ UNCHANGED << state, emptyShown, pending, getVisitsCalls >>
       ELSE LET historyItems == getHistoryBatch(state.currentOffset, batchSize)
            IN  IF Len(historyItems) = 0
                  THEN /\ state' = [state EXCEPT !.hasMore = FALSE, !.isLoading = FALSE]
                       /\ emptyShown' = IF state.currentOffset = 0 THEN emptyShown + 1
                                        ELSE emptyShown
                       /\ lastReturn' = "empty"
                       /\ UNCHANGED << pending, getVisitsCalls >>
                  ELSE /\ state' = [state EXCEPT !.isLoading = TRUE]
                       /\ emptyShown' = emptyShown
                       /\ pending' = Append(pending, historyItems)
                       /\ getVisitsCalls' = IF counted THEN getVisitsCalls + Len(historyItems)
                                            ELSE getVisitsCalls
                       /\ lastReturn' = "await"

\* loadMoreHistory(), counted
loadMoreHistory == loadMoreHistoryCall(TRUE)

\* init(): await loadMoreHistory()
InitFirstBatch ==
  /\ pc = "loadMoreHistory"
  /\ loadMoreHistory
  /\ pc' = "setupInfiniteScroll"
  /\ UNCHANGED << blacklist, searchResult, feed, argUrl, result, otherPages >>

\* init(): setupInfiniteScroll(), once the first loadMoreHistory has finished
SetupInfiniteScroll ==
  /\ pc = "setupInfiniteScroll"
  /\ pending = <<>>
  /\ pc' = "observing"
  /\ UNCHANGED << blacklist, searchResult, state, feed, emptyShown, pending,
                  getVisitsCalls, invocations, lastReturn, argUrl, result, otherPages >>

\* the IntersectionObserver callback for an intersecting entry
ScrollIntersect ==
  /\ pc = "observing"
  /\ invocations < MaxInvocations
  /\ ~state.isLoading /\ state.hasMore
  /\ loadMoreHistory
  /\ UNCHANGED << pc, blacklist, searchResult, feed, argUrl, result, otherPages >>

\* loadMoreHistory() invoked by a caller other than the observer
NextBatch ==
  /\ pc \in {"setupInfiniteScroll", "observing"}
  /\ invocations < MaxInvocations
  /\ loadMoreHistory
  /\ UNCHANGED << pc, blacklist, searchResult, feed, argUrl, result, otherPages >>

\* the sequence s without its i-th element
RemoveAt(s, i) == SubSeq(s, 1, i - 1) \o SubSeq(s, i + 1, Len(s))

\* whether new URL(url) throws, for each url a record of the feed can have,
\* computed once
NewUrlThrows ==
  [ url \in FeedUrls \cup { LongUrls[i] : i \in 1..Len(LongUrls) } |->
      ~ParseURL(Chars(url)).ok ]

\* createCard(historyItem) throws when new URL(historyItem.url) does
CreateCardThrows(item) == NewUrlThrows[item.url]

\* renderCards(historyItems): the fragment is appended only when every card
\* was created
RenderCardsThrows(items) == \E k \in 1..Len(items) : CreateCardThrows(items[k])

\* a constant in place of visits.length
WithVisitCount_NoLookup(item) ==
  [ id |-> item.id, url |-> item.url, lastVisitTime |-> item.lastVisitTime,
    visitCount |-> 0 ]

\* { ...item, visitCount: visits.length }
WithVisitCount(item) ==
  [ id |-> item.id, url |-> item.url, lastVisitTime |-> item.lastVisitTime,
    visitCount |-> VisitsLength(item) ]

\* the end test with > for >=
ReachedEnd_Strict(offset) == offset > Len(state.allHistory)

\* if (state.currentOffset >= state.allHistory.length)
ReachedEnd(offset) == offset >= Len(state.allHistory)

\* the offset advanced by the size of a full batch
AdvanceOffset_ByBatchSize(historyItems) == state.currentOffset + batchSize

\* state.currentOffset += historyItems.length
AdvanceOffset(historyItems) == state.currentOffset + Len(historyItems)

\* loadMoreHistory() after its await, every lookup resolved: render, advance
\* the offset, then the finally block; a throwing render goes to the catch
LoadMoreResolved ==
  \E i \in 1..Len(pending) :
    LET historyItems        == pending[i]
        itemsWithVisitCount == [k \in 1..Len(historyItems) |-> WithVisitCount(historyItems[k])]
        offset              == AdvanceOffset(historyItems)
    IN  /\ IF RenderCardsThrows(itemsWithVisitCount)
             THEN /\ state' = [state EXCEPT !.isLoading = FALSE]
                  /\ feed' = feed
             ELSE /\ feed' = Append(feed, itemsWithVisitCount)
                  /\ state' = [state EXCEPT !.currentOffset = offset,
                                            !.hasMore = IF ReachedEnd(offset) THEN FALSE ELSE @,
                                            !.isLoading = FALSE]
        /\ pending' = RemoveAt(pending, i)
        /\ UNCHANGED << pc, blacklist, searchResult, emptyShown, getVisitsCalls,
                        invocations, lastReturn, argUrl, result, otherPages >>

\* loadMoreHistory() after its await, a lookup rejected: the catch and
\* finally blocks
LoadMoreRejected ==
  \E i \in 1..Len(pending) :
    /\ state' = [state EXCEPT !.isLoading = FALSE]
    /\ pending' = RemoveAt(pending, i)
    /\ UNCHANGED << pc, blacklist, searchResult, feed, emptyShown, getVisitsCalls,
                    invocations, lastReturn, argUrl, result, otherPages >>

Next ==
  \/ BlacklistLoad
  \/ LoadAllHistory
  \/ InitFirstBatch
  \/ SetupInfiniteScroll
  \/ ScrollIntersect
  \/ NextBatch
  \/ LoadMoreResolved
  \/ LoadMoreRejected

Spec == Init /\ [][Next]_vars

-----------------------------------------------------------------------------
(* Feed with every lookup resolving and the sentinel observed whenever the *)
(* paginator is ready: the calls made by the observer are not counted.     *)

\* the IntersectionObserver callback, for a sentinel that is in view
ScrollWhenReady ==
  /\ pc = "observing"
  /\ ~state.isLoading /\ state.hasMore
  /\ loadMoreHistoryCall(FALSE)
  /\ UNCHANGED << pc, blacklist, searchResult, feed, argUrl, result, otherPages >>

NextProgress ==
  \/ BlacklistLoad
  \/ LoadAllHistory
  \/ InitFirstBatch
  \/ SetupInfiniteScroll
  \/ ScrollWhenReady
  \/ LoadMoreResolved

\* once the history is loaded, init() goes on, a pending Promise.all
\* settles, and the observer calls back while the sentinel is in view
SpecProgress ==
  /\ Init
  /\ [][NextProgress]_vars
  /\ WF_vars(InitFirstBatch)
  /\ WF_vars(SetupInfiniteScroll)
  /\ WF_vars(ScrollWhenReady)
  /\ WF_vars(LoadMoreResolved)

-----------------------------------------------------------------------------
(* Matcher runs: matches applied to one url under one loaded rule set      *)

InitMatcher ==
  /\ pc = "matches"
  /\ blacklist \in RuleSets
  /\ argUrl \in UrlPool
  /\ result = NotReturned
  /\ searchResult = <<>>
  /\ state = InitialState
  /\ feed = <<>>
  /\ emptyShown = 0
  /\ pending = <<>>
  /\ getVisitsCalls = 0
  /\ invocations = 0
  /\ lastReturn = "none"
  /\ StatsNotStarted
  /\ ChatNotStarted
  /\ LibNotStarted

\* blacklist.matches(url)
CallMatches ==
  /\ pc = "matches"
  /\ result' = [returned |-> TRUE, value |-> matches(blacklist, argUrl)]
  /\ pc' = "returned"
  /\ UNCHANGED << blacklist, searchResult, state, feed, emptyShown, pending,
                  getVisitsCalls, invocations, lastReturn, argUrl, otherPages >>

NextMatcher == CallMatches

SpecMatcher == InitMatcher /\ [][NextMatcher]_vars

-----------------------------------------------------------------------------
(* Statistics page (statistics script): getRootDomain                      *)

\* String.prototype.split with a one-character separator
RECURSIVE Split(_, _)
Split(s, sep) ==
  LET i == IndexOfAny(s, {sep}, 1)
  IN  IF i > Len(s) THEN << s >>
      ELSE << SubSeq(s, 1, i - 1) >> \o Split(Tail_(s, i + 1), sep)

\* Array.prototype.join
RECURSIVE Join(_, _)
Join(parts, sep) ==
  IF parts = <<>> THEN <<>>
  ELSE IF Len(parts) = 1 THEN parts[1]
  ELSE parts[1] \o << sep >> \o Join(Tail(parts), sep)

\* Array.prototype.slice(-k)
SliceLast(parts, k) ==
  SubSeq(parts, IF Len(parts) > k THEN Len(parts) - k + 1 ELSE 1, Len(parts))

\* ['co', 'com', 'org', 'ac', 'gov', 'edu', 'net']
SecondLevelSuffixes ==
  { Chars(s) : s \in {"co", "com", "org", "ac", "gov", "edu", "net"} }

\* a value that may be null
Null == [null |-> TRUE, value |-> <<>>]

Value(v) == [null |-> FALSE, value |-> v]

\* a getRootDomain without the special-suffix branch
getRootDomain_LastTwo(url) ==
  LET parsed == ParseURL(url)
  IN  IF ~parsed.ok THEN Null
      ELSE Value(Join(SliceLast(Split(parsed.hostname, "."), 2), "."))

\* getRootDomain(url): null when new URL(url) throws
getRootDomain(url) ==
  LET parsed == ParseURL(url)
      parts  == Split(parsed.hostname, ".")
  IN  IF ~parsed.ok THEN Null
      ELSE IF Len(parts) >= 3 /\ parts[Len(parts) - 1] \in SecondLevelSuffixes
        THEN Value(Join(SliceLast(parts, 3), "."))
      ELSE Value(Join(SliceLast(parts, 2), "."))

\* the hostnames and urls getRootDomain is run with
LabelPool == {"www", "blog", "example", "co", "com", "uk"}

Hostnames ==
  { Join([i \in 1..Len(ls) |-> Chars(ls[i])], ".") :
      ls \in SeqsUpTo(LabelPool, MaxLabels) \ { <<>> } }

UrlOfHost(h) == Chars("https://") \o h \o << "/" >>

RootDomainUrls == { UrlOfHost(h) : h \in Hostnames } \cup { Chars("not a url/login") }

InitRootDomain ==
  /\ pc = "getRootDomain"
  /\ blacklist = NoRules
  /\ argUrl \in RootDomainUrls
  /\ result = NotReturned
  /\ FeedNotStarted
  /\ StatsNotStarted
  /\ ChatNotStarted
  /\ LibNotStarted

\* getRootDomain(url)
CallGetRootDomain ==
  /\ pc = "getRootDomain"
  /\ result' = [returned |-> TRUE, value |-> getRootDomain(argUrl)]
  /\ pc' = "returned"
  /\ UNCHANGED << blacklist, argUrl, feedVars, otherPages >>

NextRootDomain == CallGetRootDomain

SpecRootDomain == InitRootDomain /\ [][NextRootDomain]_vars

-----------------------------------------------------------------------------
(* Statistics page (statistics script): loading and aggregation            *)

\* the records chrome.history can hold, one per url, in the order search
\* returns them: url and days since the last visit
StatsRecords ==
  << [url |-> "https://www.example.co.uk/", daysAgo |-> 3],
     [url |-> "https://blog.example.com/", daysAgo |-> 3],
     [url |-> "https://example.com/", daysAgo |-> 20],
     [url |-> "https://example.com/a", daysAgo |-> 3],
     [url |-> "not a url/login", daysAgo |-> 3],
     [url |-> "file:///home/a.html", daysAgo |-> 3] >>

StatsDbs ==
  { SelectSeq(StatsRecords, LAMBDA r : r \in held) :
      held \in { h \in SUBSET { StatsRecords[i] : i \in 1..Len(StatsRecords) } :
                   Cardinality(h) <= MaxStatsRecords } }

\* chrome.history.getVisits({ url }) when it resolves: the transitions of
\* the visits of the url
VisitsOf(url) ==
  CASE url = "https://www.example.co.uk/" -> << "typed" >>
    [] url = "https://blog.example.com/" -> << "link", "typed", "link" >>
    [] url = "https://example.com/" -> << "link" >>
    [] url = "https://example.com/a" -> << "typed", "reload" >>
    [] OTHER -> <<>>

\* the values of the options of the two selectors
TimeRangeOptions == {7, 30}

TopNOptions == {1, 20}

\* chrome.history.search({ startTime: now - days, ... }) when it resolves
HistorySearch(days) == SelectSeq(historyDb, LAMBDA item : item.daysAgo <= days)

\* the urls of the records, and the rule sets the page can have loaded
StatsUrls == { StatsRecords[i].url : i \in 1..Len(StatsRecords) }

StatsRuleSets ==
  {NoRules} \cup { Rules(data.domains, data.patterns) : data \in BlacklistFiles }

\* blacklist.matches(url) of each of these rule sets for each of these
\* urls, computed once: the urls it returns true for
Blacklisted == [ rules \in StatsRuleSets |-> { url \in StatsUrls : matches(rules, url) } ]

\* getRootDomain(url) for each of these urls, computed once
RootDomainOf == [ url \in StatsUrls |-> getRootDomain(Chars(url)) ]

\* fetchHistory: historyItems.filter(item => !blacklist || !blacklist.matches(item.url))
FilterHistory(historyItems) ==
  SelectSeq(historyItems, LAMBDA item : item.url \notin Blacklisted[blacklist])

\* domainMap.has(domain)
HasDomain(domainMap, domain) ==
  \E k \in 1..Len(domainMap) : domainMap[k].domain = domain

\* if (!domainMap.has(domain)) domainMap.set(domain, {...})
EnsureDomain(domainMap, domain) ==
  IF HasDomain(domainMap, domain) THEN domainMap
  ELSE Append(domainMap, [domain |-> domain, visitCount |-> 0, urls |-> <<>>])

\* domainData.visitCount++; domainData.urls.add(item.url)
CountRecord(domainData, url) ==
  [domainData EXCEPT
     !.visitCount = @ + 1,
     !.urls = IF \E u \in 1..Len(@) : @[u] = url THEN @ ELSE Append(@, url)]

\* const domainData = domainMap.get(domain), and the two updates of it
CountAt(domainMap, domain, url) ==
  [ k \in 1..Len(domainMap) |->
      IF domainMap[k].domain = domain THEN CountRecord(domainMap[k], url)
      ELSE domainMap[k] ]

\* a callback without if (!domain) return
AddRecord_NoDomainTest(domainMap, domain, url) ==
  CountAt(EnsureDomain(domainMap, domain.value), domain.value, url)

\* the body of the forEach callback for an item whose root domain is domain
AddRecord(domainMap, domain, url) ==
  IF domain.null \/ domain.value = <<>> THEN domainMap
  ELSE CountAt(EnsureDomain(domainMap, domain.value), domain.value, url)

\* processDomainData, first loop: the entries of domainMap in insertion order
RECURSIVE GroupByDomain(_, _, _)
GroupByDomain(historyItems, i, domainMap) ==
  IF i > Len(historyItems) THEN domainMap
  ELSE GroupByDomain(historyItems, i + 1,
         AddRecord(domainMap, RootDomainOf[historyItems[i].url], historyItems[i].url))

\* the urls processDomainData looks the visits up for
LookupUrls(domainMap) ==
  UNION { { domainMap[k].urls[u] : u \in 1..Len(domainMap[k].urls) } :
            k \in 1..Len(domainMap) }

\* visits.forEach: the visits counted as typed (typed = TRUE) or as clicked
CountTransitions(visits, typed) ==
  Cardinality({ v \in 1..Len(visits) : (visits[v] = "typed") = typed })

\* for (const url of data.urls): a rejected lookup is logged and adds nothing
RECURSIVE CountVisits(_, _, _, _)
CountVisits(urls, failed, typed, u) ==
  IF u > Len(urls) THEN 0
  ELSE (IF urls[u] \in failed THEN 0 ELSE CountTransitions(VisitsOf(urls[u]), typed))
         + CountVisits(urls, failed, typed, u + 1)

\* ((num / den) * 100).toFixed(1), as a number of tenths: the nearest
\* tenth, the larger one of two equally near
ToFixed1(num, den) == (2000 * num + den) \div (2 * den)

\* a total that counts the records with a root domain only
TotalVisits_WithDomainOnly(historyItems) ==
  Cardinality({ i \in 1..Len(historyItems) :
                  LET domain == getRootDomain(Chars(historyItems[i].url))
                  IN  ~domain.null /\ domain.value # <<>> })

\* const totalVisits = historyItems.length
TotalVisits(historyItems) == Len(historyItems)

\* an insertion that puts the smaller visitCount first
InsertByVisitCount_Ascending(sorted, x) ==
  LET before == SelectSeq(sorted, LAMBDA y : y.visitCount <= x.visitCount)
      after  == SelectSeq(sorted, LAMBDA y : y.visitCount > x.visitCount)
  IN  before \o << x >> \o after

\* .sort((a, b) => b.visitCount - a.visitCount): the sort is stable
InsertByVisitCount(sorted, x) ==
  LET before == SelectSeq(sorted, LAMBDA y : y.visitCount >= x.visitCount)
      after  == SelectSeq(sorted, LAMBDA y : y.visitCount < x.visitCount)
  IN  before \o << x >> \o after

RECURSIVE SortByVisitCount(_, _, _)
SortByVisitCount(entries, i, sorted) ==
  IF i > Len(entries) THEN sorted
  ELSE SortByVisitCount(entries, i + 1, InsertByVisitCount(sorted, entries[i]))

\* a second loop in which one rejected lookup leaves the counts of every
\* domain at 0
AggregateAndSort_FailureHitsAll(domainMap, totalVisits, failed) ==
  LET entries ==
        [ k \in 1..Len(domainMap) |->
            [ domain       |-> domainMap[k].domain,
              visitCount   |-> domainMap[k].visitCount,
              typedCount   |-> IF failed # {} THEN 0
                               ELSE CountVisits(domainMap[k].urls, failed, TRUE, 1),
              clickedCount |-> IF failed # {} THEN 0
                               ELSE CountVisits(domainMap[k].urls, failed, FALSE, 1),
              percentage   |-> ToFixed1(domainMap[k].visitCount, totalVisits) ] ]
  IN  SortByVisitCount(entries, 1, <<>>)

\* processDomainData from its second loop on, when the lookups of the urls
\* in failed were rejected and the others resolved
AggregateAndSort(domainMap, totalVisits, failed) ==
  LET entries ==
        [ k \in 1..Len(domainMap) |->
            [ domain       |-> domainMap[k].domain,
              visitCount   |-> domainMap[k].visitCount,
              typedCount   |-> CountVisits(domainMap[k].urls, failed, TRUE, 1),
              clickedCount |-> CountVisits(domainMap[k].urls, failed, FALSE, 1),
              percentage   |-> ToFixed1(domainMap[k].visitCount, totalVisits) ] ]
  IN  SortByVisitCount(entries, 1, <<>>)

\* processDomainData(historyItems)
processDomainData(historyItems, failed) ==
  AggregateAndSort(GroupByDomain(historyItems, 1, <<>>), TotalVisits(historyItems), failed)

\* renderChart: state.domainData.slice(0, state.topN)
TopDomains(s) ==
  SubSeq(s.domainData, 1, IF Len(s.domainData) < s.topN THEN Len(s.domainData) ELSE s.topN)

\* updateSummaryStats(domainData, totalVisits)
SummaryStats(domainData, totalVisits) ==
  [ totalVisits   |-> totalVisits,
    uniqueDomains |-> Len(domainData),
    topDomain     |-> IF Len(domainData) > 0 THEN domainData[1].domain ELSE Chars("N/A") ]

InitStats ==
  /\ pc = "stats.init"
  /\ blacklist = NoRules
  /\ argUrl = ""
  /\ result = NotReturned
  /\ FeedNotStarted
  /\ ChatNotStarted
  /\ LibNotStarted
  /\ statsState = InitialStatsState
  /\ historyDb \in StatsDbs
  /\ loads = <<>>
  /\ chart = <<>>
  /\ summary = NoSummary
  /\ processed = NothingProcessed
  /\ statsCalls = NoStatsCalls

\* loadAndRenderData() up to its first await: fetchHistory(state.timeRange)
\* has issued its search
CallLoadAndRenderData(days) ==
  /\ statsCalls.loadAndRenderData < MaxLoads
  /\ loads' = Append(loads, [stage |-> "fetchHistory", days |-> days,
                             history |-> <<>>, domainMap |-> <<>>])
  /\ statsCalls' = [statsCalls EXCEPT !.loadAndRenderData = @ + 1]

\* init(): Chart is defined; blacklist.load(), the listeners, and the first
\* loadAndRenderData() up to its await
StatsInit ==
  /\ pc = "stats.init"
  /\ \/ \E data \in BlacklistFiles : blacklist' = Rules(data.domains, data.patterns)
     \/ blacklist' = blacklist
  /\ CallLoadAndRenderData(statsState.timeRange)
  /\ pc' = "stats.ready"
  /\ UNCHANGED << statsState, historyDb, chart, summary, processed,
                  argUrl, result, feedVars, chatVars, libVars >>

\* handleTopNChange(e)
HandleTopNChange ==
  /\ pc = "stats.ready"
  /\ \E n \in TopNOptions :
       /\ statsState' = [statsState EXCEPT !.topN = n]
       /\ chart' = TopDomains(statsState')
  /\ UNCHANGED << pc, blacklist, historyDb, loads, summary, processed, statsCalls,
                  argUrl, result, feedVars, chatVars, libVars >>

\* handleTimeRangeChange(e)
HandleTimeRangeChange ==
  /\ pc = "stats.ready"
  /\ \E days \in TimeRangeOptions :
       /\ statsState' = [statsState EXCEPT !.timeRange = days]
       /\ CallLoadAndRenderData(days)
  /\ UNCHANGED << pc, blacklist, historyDb, chart, summary, processed,
                  argUrl, result, feedVars, chatVars, libVars >>

\* click on refreshBtn: loadAndRenderData
RefreshClick ==
  /\ pc = "stats.ready"
  /\ CallLoadAndRenderData(statsState.timeRange)
  /\ UNCHANGED << pc, blacklist, statsState, historyDb, chart, summary, processed,
                  argUrl, result, feedVars, chatVars, libVars >>

\* an assignment of the map of the first loop, before any lookup
FinishLoad_BeforeLookups(i, history, domainMap, failed) ==
  /\ statsState' = [statsState EXCEPT !.domainData = domainMap]
  /\ summary' = SummaryStats(statsState'.domainData, Len(history))
  /\ chart' = TopDomains(statsState')
  /\ processed' = [done |-> TRUE, historyItems |-> history, failed |-> failed]
  /\ loads' = RemoveAt(loads, i)

\* loadAndRenderData from the return of processDomainData on: the
\* assignment to state.domainData, updateSummaryStats, renderChart
FinishLoad(i, history, domainMap, failed) ==
  /\ statsState' = [statsState EXCEPT
       !.domainData = AggregateAndSort(domainMap, TotalVisits(history), failed)]
  /\ summary' = SummaryStats(statsState'.domainData, Len(history))
  /\ chart' = TopDomains(statsState')
  /\ processed' = [done |-> TRUE, historyItems |-> history, failed |-> failed]
  /\ loads' = RemoveAt(loads, i)

\* the search of a load resolves: fetchHistory filters, processDomainData
\* groups the records and suspends on its first lookup, or returns when
\* there is none to make
HistorySearchResolved ==
  \E i \in 1..Len(loads) :
    /\ loads[i].stage = "fetchHistory"
    /\ LET history   == FilterHistory(HistorySearch(loads[i].days))
           domainMap == GroupByDomain(history, 1, <<>>)
       IN  IF LookupUrls(domainMap) = {}
             THEN FinishLoad(i, history, domainMap, {})
           ELSE /\ loads' = [loads EXCEPT ![i] = [@ EXCEPT !.stage = "processDomainData",
                                                           !.history = history,
                                                           !.domainMap = domainMap]]
                /\ UNCHANGED << statsState, chart, summary, processed >>
    /\ UNCHANGED << pc, blacklist, historyDb, statsCalls, argUrl, result, feedVars, chatVars, libVars >>

\* the search of a load is rejected: the catch block alerts
HistorySearchRejected ==
  \E i \in 1..Len(loads) :
    /\ loads[i].stage = "fetchHistory"
    /\ loads' = RemoveAt(loads, i)
    /\ statsCalls' = [statsCalls EXCEPT !.alerts = @ + 1]
    /\ UNCHANGED << pc, blacklist, statsState, historyDb, chart, summary, processed,
                    argUrl, result, feedVars, chatVars, libVars >>

\* the lookups of a load have all settled, those of the urls in failed by
\* rejection
VisitLookupsSettled ==
  \E i \in 1..Len(loads) :
    /\ loads[i].stage = "processDomainData"
    /\ \E failed \in SUBSET LookupUrls(loads[i].domainMap) :
         FinishLoad(i, loads[i].history, loads[i].domainMap, failed)
    /\ UNCHANGED << pc, blacklist, historyDb, statsCalls, argUrl, result, feedVars, chatVars, libVars >>

NextStats ==
  \/ StatsInit
  \/ HandleTopNChange
  \/ HandleTimeRangeChange
  \/ RefreshClick
  \/ HistorySearchResolved
  \/ HistorySearchRejected
  \/ VisitLookupsSettled

SpecStats == InitStats /\ [][NextStats]_vars

-----------------------------------------------------------------------------
(* Chat (feed script): modal, messages, page content, chat histories.      *)
(* The message elements of the modal are not modelled, only whether the    *)
(* elements that the handlers look up by id are in the document.  The      *)
(* removal of a closed modal, 200 ms after the close, is part of the close.*)

\* the pages whose cards are in the feed
ChatPages == {"https://example.com/", "https://example.com/a"}

\* the feed after init() with these two records: one batch, exhausted
FeedShowsChatPages ==
  LET older == [id |-> 1, url |-> "https://example.com/", lastVisitTime |-> 2]
      newer == [id |-> 2, url |-> "https://example.com/a", lastVisitTime |-> 4]
  IN  /\ searchResult = << older, newer >>
      /\ state = [ currentOffset |-> 2, isLoading |-> FALSE, hasMore |-> FALSE,
                   allHistory |-> << newer, older >>, filteredCount |-> 0 ]
      /\ feed = << << WithVisitCount(newer), WithVisitCount(older) >> >>
      /\ emptyShown = 0
      /\ pending = <<>>
      /\ getVisitsCalls = 2
      /\ invocations = 1
      /\ lastReturn = "await"

\* what the user types into chatInput
UserMessages == {"", "hi"}

\* the cleaned text of the page that fetch(url) resolves to
PageText(url) ==
  CASE url = "https://example.com/" -> "text of https://example.com/"
    [] url = "https://example.com/a" -> "text of https://example.com/a"

\* the cleaned texts that a fetch of the page can resolve to: its text, or
\* the empty string for a page whose body has no text
PageTexts(url) == {PageText(url), ""}

\* existingChat.content || null
OrNull(content) == IF content = "" THEN "null" ELSE content

\* what llmService.sendMessage resolves to for a message sent from the chat
\* of the page
ReplyTo(page) ==
  CASE page = "https://example.com/" -> "reply in the chat of https://example.com/"
    [] page = "https://example.com/a" -> "reply in the chat of https://example.com/a"

\* saveChatHistory()
saveChatHistory(cs, histories) ==
  IF cs.currentPage = "null" THEN histories
  ELSE [ u \in DOMAIN histories \cup {cs.currentPage} |->
           IF u = cs.currentPage
             THEN [messages |-> cs.messages, content |-> cs.pageContent]
           ELSE histories[u] ]

\* a delete that empties the object
DeleteKey_All(histories, url) == <<>>

\* delete chatHistories[url]
DeleteKey(histories, url) == [u \in DOMAIN histories \ {url} |-> histories[u]]

\* a handler that neither throws nor writes chatHistories has run
Ran == chatCalls

\* a handler has written chatHistories by saveChatHistory()
Saved == [chatCalls EXCEPT !.lastClear = "none", !.removed = {}]

\* an async handler has finished; with no chat modal in the document
\* document.getElementById('chatMessages') is null in the add...Message
\* function that the handler, and then its catch block, calls, and the
\* TypeError leaves the handler
EscapesIfNoModal(calls) == [calls EXCEPT !.escaped = @ \/ ~modal.open]

InitChat ==
  /\ pc = "observing"
  /\ blacklist = NoRules
  /\ argUrl = ""
  /\ result = NotReturned
  /\ FeedShowsChatPages
  /\ StatsNotStarted
  /\ ChatNotStarted
  /\ LibNotStarted

\* openChatModal(historyItem), by a click on a card; the backdrop of an
\* open modal covers the cards
OpenChatModal ==
  /\ ~modal.open
  /\ \E url \in ChatPages :
       LET existingChat == url \in DOMAIN chatHistories
           content == IF existingChat THEN OrNull(chatHistories[url].content) ELSE "null"
       IN  /\ chatState' = [ currentPage |-> url,
                             isTyping    |-> FALSE,
                             messages    |-> IF existingChat THEN chatHistories[url].messages
                                             ELSE <<>>,
                             pageContent |-> content ]
           /\ modal' = [open |-> TRUE,
                        fetchButton |-> IF content = "null" THEN "enabled" ELSE "none"]
  /\ chatCalls' = Ran
  /\ UNCHANGED << pc, blacklist, argUrl, result, feedVars, statsVars, libVars,
                  chatHistories, llmCalls, fetches >>

\* closeChatModal(backdrop): chatState is left as it is
CloseChatModal ==
  /\ modal.open
  /\ modal' = NoModal
  /\ fetches' = [i \in 1..Len(fetches) |->
                   [fetches[i] EXCEPT !.inDocument = FALSE, !.ownButton = FALSE]]
  /\ chatCalls' = Ran
  /\ UNCHANGED << pc, blacklist, argUrl, result, feedVars, statsVars, libVars,
                  chatState, chatHistories, llmCalls >>

\* sendMessage() up to await Config.load(); with an empty message or while
\* isTyping it returns at once
SendMessage ==
  /\ modal.open
  /\ \E message \in UserMessages :
       IF message = "" \/ chatState.isTyping
         THEN /\ chatCalls' = Ran
              /\ UNCHANGED << chatState, chatHistories, llmCalls >>
       ELSE /\ chatCalls.sendMessage + chatCalls.fetchPageContent < MaxChatCalls
            /\ chatState' = [chatState EXCEPT
                 !.messages = Append(@, [role |-> "user", content |-> message]),
                 !.isTyping = TRUE]
            /\ chatHistories' = saveChatHistory(chatState', chatHistories)
            /\ llmCalls' = Append(llmCalls, [stage |-> "Config.load",
                                             page |-> chatState.currentPage])
            /\ chatCalls' = [Saved EXCEPT !.sendMessage = @ + 1]
  /\ UNCHANGED << pc, blacklist, argUrl, result, feedVars, statsVars, libVars, modal, fetches >>

\* Config.load() resolved without an API key for a provider that needs one:
\* addSettingsHint(), then the finally block
ConfigWithoutKey ==
  \E i \in 1..Len(llmCalls) :
    /\ llmCalls[i].stage = "Config.load"
    /\ chatState' = [chatState EXCEPT !.isTyping = FALSE]
    /\ llmCalls' = RemoveAt(llmCalls, i)
    /\ chatCalls' = EscapesIfNoModal(chatCalls)
    /\ UNCHANGED << pc, blacklist, argUrl, result, feedVars, statsVars, libVars,
                    chatHistories, modal, fetches >>

\* Config.load() resolved with a usable configuration:
\* llmService.sendMessage(message, chatState.pageContent) is called
ConfigLoaded ==
  \E i \in 1..Len(llmCalls) :
    /\ llmCalls[i].stage = "Config.load"
    /\ llmCalls' = [llmCalls EXCEPT ![i].stage = "llmService.sendMessage"]
    /\ chatCalls' = Ran
    /\ UNCHANGED << pc, blacklist, argUrl, result, feedVars, statsVars, libVars,
                    chatState, chatHistories, modal, fetches >>

\* llmService.sendMessage resolved: addMessage('assistant', response), which
\* throws before its push when no chat modal is in the document; then the
\* finally block
LlmResolved ==
  \E i \in 1..Len(llmCalls) :
    /\ llmCalls[i].stage = "llmService.sendMessage"
    /\ IF modal.open
         THEN /\ chatState' = [chatState EXCEPT
                   !.messages = Append(@, [role |-> "assistant",
                                           content |-> ReplyTo(llmCalls[i].page)]),
                   !.isTyping = FALSE]
              /\ chatHistories' = saveChatHistory(chatState', chatHistories)
              /\ chatCalls' = Saved
       ELSE /\ chatState' = [chatState EXCEPT !.isTyping = FALSE]
            /\ chatHistories' = chatHistories
            /\ chatCalls' = EscapesIfNoModal(chatCalls)
    /\ llmCalls' = RemoveAt(llmCalls, i)
    /\ UNCHANGED << pc, blacklist, argUrl, result, feedVars, statsVars, libVars, modal, fetches >>

\* llmService.sendMessage rejected: addErrorMessage, then the finally block
LlmRejected ==
  \E i \in 1..Len(llmCalls) :
    /\ llmCalls[i].stage = "llmService.sendMessage"
    /\ chatState' = [chatState EXCEPT !.isTyping = FALSE]
    /\ llmCalls' = RemoveAt(llmCalls, i)
    /\ chatCalls' = EscapesIfNoModal(chatCalls)
    /\ UNCHANGED << pc, blacklist, argUrl, result, feedVars, statsVars, libVars,
                    chatHistories, modal, fetches >>

\* fetchPageContent() up to await fetch(chatState.currentPage.url), by a
\* click on the enabled fetch button
FetchPageContent ==
  /\ modal.open
  /\ modal.fetchButton = "enabled"
  /\ chatCalls.sendMessage + chatCalls.fetchPageContent < MaxChatCalls
  /\ modal' = [modal EXCEPT !.fetchButton = "disabled"]
  /\ fetches' = Append(fetches, [url |-> chatState.currentPage,
                                 inDocument |-> TRUE, ownButton |-> TRUE])
  /\ chatCalls' = [chatCalls EXCEPT !.fetchPageContent = @ + 1]
  /\ UNCHANGED << pc, blacklist, argUrl, result, feedVars, statsVars, libVars,
                  chatState, chatHistories, llmCalls >>

\* fetch and response.text() resolved: chatState.pageContent is set and
\* saved, the content area the call started with shows the preview
FetchResolved ==
  \E i \in 1..Len(fetches) :
    /\ \E cleanedContent \in PageTexts(fetches[i].url) :
         chatState' = [chatState EXCEPT !.pageContent = cleanedContent]
    /\ chatHistories' = saveChatHistory(chatState', chatHistories)
    /\ modal' = IF fetches[i].inDocument THEN [modal EXCEPT !.fetchButton = "none"] ELSE modal
    /\ fetches' = LET rest == RemoveAt(fetches, i)
                  IN  IF fetches[i].inDocument
                        THEN [k \in 1..Len(rest) |-> [rest[k] EXCEPT !.ownButton = FALSE]]
                      ELSE rest
    /\ chatCalls' = EscapesIfNoModal(Saved)
    /\ UNCHANGED << pc, blacklist, argUrl, result, feedVars, statsVars, libVars, llmCalls >>

\* fetch rejected: addErrorMessage, then the button the call started with is
\* enabled again
FetchRejected ==
  \E i \in 1..Len(fetches) :
    /\ modal' = IF modal.open /\ fetches[i].ownButton
                  THEN [modal EXCEPT !.fetchButton = "enabled"]
                ELSE modal
    /\ fetches' = RemoveAt(fetches, i)
    /\ chatCalls' = EscapesIfNoModal(chatCalls)
    /\ UNCHANGED << pc, blacklist, argUrl, result, feedVars, statsVars, libVars,
                    chatState, chatHistories, llmCalls >>

\* clearCurrentChat(), confirmed: a fresh fetch button replaces the content
\* area's children
ClearCurrentChat ==
  /\ modal.open
  /\ chatHistories' = DeleteKey(chatHistories, chatState.currentPage)
  /\ chatState' = [chatState EXCEPT !.messages = <<>>, !.pageContent = "null"]
  /\ modal' = [modal EXCEPT !.fetchButton = "enabled"]
  /\ fetches' = [i \in 1..Len(fetches) |-> [fetches[i] EXCEPT !.ownButton = FALSE]]
  /\ chatCalls' = [chatCalls EXCEPT !.lastClear = "clearCurrentChat",
                                   !.removed = DOMAIN chatHistories \ DOMAIN chatHistories']
  /\ UNCHANGED << pc, blacklist, argUrl, result, feedVars, statsVars, libVars, llmCalls >>

\* clearAllChats(): confirmed, or the alert when there is nothing to clear
ClearAllChats ==
  /\ modal.open
  /\ IF DOMAIN chatHistories = {}
       THEN /\ chatHistories' = chatHistories
            /\ chatCalls' = Ran
     ELSE /\ chatHistories' = <<>>
          /\ chatCalls' = [chatCalls EXCEPT !.lastClear = "clearAllChats",
                                           !.removed = DOMAIN chatHistories]
  /\ UNCHANGED << pc, blacklist, argUrl, result, feedVars, statsVars, libVars,
                  chatState, modal, llmCalls, fetches >>

NextChat ==
  \/ OpenChatModal
  \/ CloseChatModal
  \/ SendMessage
  \/ ConfigWithoutKey
  \/ ConfigLoaded
  \/ LlmResolved
  \/ LlmRejected
  \/ FetchPageContent
  \/ FetchResolved
  \/ FetchRejected
  \/ ClearCurrentChat
  \/ ClearAllChats

SpecChat == InitChat /\ [][NextChat]_vars

-----------------------------------------------------------------------------
(* LLM gateway (extension/config.js): LLMService.sendMessage.  A value of  *)
(* JavaScript is a record: its type t, the string s it is, the elements a  *)
(* of an array or the property values of an object, and the names of the   *)
(* properties.  The message and the context go into the request only and   *)
(* are not modelled.                                                       *)

JNull == [JUndefined EXCEPT !.t = "null"]

JStr(str) == [JUndefined EXCEPT !.t = "string", !.s = str]

JArr(elements) == [JUndefined EXCEPT !.t = "array", !.a = elements]

\* an object with the properties props, each [name, value]
JObj(props) ==
  [JUndefined EXCEPT !.t = "object",
                     !.a = [k \in 1..Len(props) |-> props[k].value],
                     !.names = [k \in 1..Len(props) |-> props[k].name]]

\* JSON.stringify(data): the JSON text of data
JsonStringify(data) == [JUndefined EXCEPT !.t = "json text", !.a = << data >>]

\* the evaluation threw (a TypeError, an Error, a rejected await)
JThrown == [JUndefined EXCEPT !.t = "thrown"]

\* a response body that is not JSON: response.json() rejects
NotJson == [JUndefined EXCEPT !.t = "not json"]

\* x.name
Prop(x, name) ==
  IF x.t = "thrown" THEN x
  ELSE IF x.t \in {"undefined", "null"} THEN JThrown
  ELSE IF x.t = "object" /\ \E k \in 1..Len(x.names) : x.names[k] = name
    THEN x.a[CHOOSE k \in 1..Len(x.names) : x.names[k] = name]
  ELSE JUndefined

\* x[0]
First(x) ==
  IF x.t = "thrown" THEN x
  ELSE IF x.t \in {"undefined", "null"} THEN JThrown
  ELSE IF x.t = "array" /\ x.a # <<>> THEN x.a[1]
  ELSE IF x.t = "string" /\ x.s # "" THEN JStr(Chars(x.s)[1])
  ELSE JUndefined

\* whether x counts as true in a condition or on the left of ||
Truthy(x) ==
  CASE x.t \in {"undefined", "null"} -> FALSE
    [] x.t = "string" -> x.s # ""
    [] OTHER -> TRUE

\* x.length === 0
LengthIsZero(x) == x.t = "array" /\ x.a = <<>>

\* a || b
Or(a, b) == IF a.t = "thrown" \/ Truthy(a) THEN a ELSE b

\* await response.json()
ResponseJson(response) == IF response.body.t = "not json" THEN JThrown ELSE response.body

\* await fetch(...) rejected, or !response.ok: the function throws, one
\* way or the other
Fails(response) == response.settled = "rejected" \/ ~response.ok

\* _sendToOpenAI from the return of fetch on
_sendToOpenAI(response) ==
  IF Fails(response) THEN JThrown
  ELSE Prop(Prop(First(Prop(ResponseJson(response), "choices")), "message"), "content")

\* _sendToAnthropic from the return of fetch on
_sendToAnthropic(response) ==
  IF Fails(response) THEN JThrown
  ELSE Prop(First(Prop(ResponseJson(response), "content")), "text")

\* the test of data.candidates in _sendToGemini
NoCandidates(candidates) == ~Truthy(candidates) \/ LengthIsZero(candidates)

\* _sendToGemini from the return of fetch on
_sendToGemini(response) ==
  IF Fails(response) THEN JThrown
  ELSE IF Prop(ResponseJson(response), "candidates").t = "thrown" THEN JThrown
  ELSE IF NoCandidates(Prop(ResponseJson(response), "candidates")) THEN JThrown
  ELSE Prop(First(Prop(Prop(First(Prop(ResponseJson(response), "candidates")),
                            "content"), "parts")), "text")

\* data.response || data.message || data.content || JSON.stringify(data)
FirstField(data) ==
  Or(Prop(data, "response"),
     Or(Prop(data, "message"), Or(Prop(data, "content"), JsonStringify(data))))

\* _sendToCustom from the return of fetch on
_sendToCustom(response) ==
  IF Fails(response) THEN JThrown
  ELSE IF ResponseJson(response).t = "thrown" THEN JThrown
  ELSE FirstField(ResponseJson(response))

\* Config.PROVIDERS
PROVIDERS == {"openai", "anthropic", "gemini", "custom"}

\* a credential test without the exemption of the custom provider
CredentialMissing_AnyProvider(config) == config.apiKey = ""

\* !apiKey && provider !== Config.PROVIDERS.CUSTOM
CredentialMissing(config) == config.apiKey = "" /\ config.provider # "custom"

\* sendMessage throws before the fetch of the provider's function
ThrowsBeforeRequest(config) ==
  \/ CredentialMissing(config)
  \/ config.provider \notin PROVIDERS
  \/ config.provider = "custom" /\ config.endpoint = ""

\* what the provider's function comes to once its fetch has settled
AfterFetch(provider, response) ==
  CASE provider = "openai" -> _sendToOpenAI(response)
    [] provider = "anthropic" -> _sendToAnthropic(response)
    [] provider = "gemini" -> _sendToGemini(response)
    [] provider = "custom" -> _sendToCustom(response)

\* the settled promise of sendMessage
Settled(value) == IF value.t = "thrown" THEN Threw ELSE Returned(value)

\* the configurations an LLMService is constructed with
Configs ==
  [ provider : PROVIDERS \cup {"other"}, apiKey : {"", "key"},
    endpoint : {"", "https://llm.example/api"} ]

Text == JStr("hi")

\* the bodies of the upstream responses
Bodies ==
  { NotJson, JNull, JObj(<<>>),
    JObj(<< [name |-> "error", value |-> JObj(<< [name |-> "message", value |-> JStr("bad")] >>)] >>),
    JObj(<< [name |-> "choices", value |-> JArr(<<>>)] >>),
    JObj(<< [name |-> "choices", value |-> JArr(<< JObj(<< [name |-> "message", value |-> JObj(<<>>)] >>) >>)] >>),
    JObj(<< [name |-> "choices", value |->
               JArr(<< JObj(<< [name |-> "message", value |->
                                  JObj(<< [name |-> "content", value |-> Text] >>)] >>) >>)] >>),
    JObj(<< [name |-> "content", value |-> JArr(<<>>)] >>),
    JObj(<< [name |-> "content", value |-> JArr(<< JObj(<<>>) >>)] >>),
    JObj(<< [name |-> "content", value |-> JArr(<< JObj(<< [name |-> "text", value |-> Text] >>) >>)] >>),
    JObj(<< [name |-> "candidates", value |-> JArr(<<>>)] >>),
    JObj(<< [name |-> "candidates", value |-> JArr(<< JObj(<<>>) >>)] >>),
    JObj(<< [name |-> "candidates", value |->
               JArr(<< JObj(<< [name |-> "content", value |->
                  JObj(<< [name |-> "parts", value |-> JArr(<< JObj(<<>>) >>)] >>)] >>) >>)] >>),
    JObj(<< [name |-> "candidates", value |->
               JArr(<< JObj(<< [name |-> "content", value |->
                  JObj(<< [name |-> "parts", value |->
                     JArr(<< JObj(<< [name |-> "text", value |-> Text] >>) >>)] >>)] >>) >>)] >>),
    JObj(<< [name |-> "response", value |-> Text] >>),
    JObj(<< [name |-> "response", value |-> JStr("")] >>),
    JObj(<< [name |-> "message", value |-> Text] >>),
    JObj(<< [name |-> "content", value |-> Text] >>) }

\* what the fetch of a request settles with
Responses ==
  { [settled |-> "rejected", ok |-> FALSE, body |-> JUndefined] }
    \cup [ settled : {"resolved"}, ok : BOOLEAN, body : Bodies ]

InitGateway ==
  /\ pc = "LLMService.sendMessage"
  /\ blacklist = NoRules
  /\ argUrl = ""
  /\ result = NotReturned
  /\ FeedNotStarted
  /\ StatsNotStarted
  /\ ChatNotStarted
  /\ StoreNotStarted
  /\ llmConfig \in Configs
  /\ llmRequests = 0
  /\ llmResponse = NoResponse

\* sendMessage(userMessage, context) up to the fetch of the provider's
\* function, or to its throw before that
CallSendMessage ==
  /\ pc = "LLMService.sendMessage"
  /\ IF ThrowsBeforeRequest(llmConfig)
       THEN /\ result' = [returned |-> TRUE, value |-> Threw]
            /\ pc' = "settled"
            /\ UNCHANGED llmRequests
     ELSE /\ llmRequests' = llmRequests + 1
          /\ pc' = "fetch"
          /\ UNCHANGED result
  /\ UNCHANGED << blacklist, argUrl, feedVars, statsVars, chatVars, storeVars,
                  llmConfig, llmResponse >>

\* the fetch settles and the provider's function runs to its end
FetchSettled ==
  /\ pc = "fetch"
  /\ \E response \in Responses :
       /\ llmResponse' = response
       /\ result' = [returned |-> TRUE,
                     value |-> Settled(AfterFetch(llmConfig.provider, response))]
  /\ pc' = "settled"
  /\ UNCHANGED << blacklist, argUrl, feedVars, statsVars, chatVars, storeVars,
                  llmConfig, llmRequests >>

NextGateway ==
  \/ CallSendMessage
  \/ FetchSettled

SpecGateway == InitGateway /\ [][NextGateway]_vars

-----------------------------------------------------------------------------
(* Rule store (extension/config.js): one Blacklist instance, the bundled   *)
(* blacklist.json and the override record in chrome.storage.local.  A      *)
(* method is split at its awaits; chrome.storage.local.set takes effect    *)
(* when its callback runs.                                                 *)

\* [...new Set(items)]: the first occurrence of each value, in order
RECURSIVE Unique(_)
Unique(items) ==
  IF items = <<>> THEN <<>>
  ELSE LET front == Unique(SubSeq(items, 1, Len(items) - 1))
           last  == items[Len(items)]
       IN  IF \E k \in 1..Len(front) : front[k] = last THEN front
           ELSE Append(front, last)

\* items.includes(x)
Includes(items, x) == \E k \in 1..Len(items) : items[k] = x

\* items.filter(d => d !== x)
Without(items, x) == SelectSeq(items, LAMBDA d : d # x)

\* the rules the methods are called with
EditDomains == {"example.com", "ads.com"}

EditPatterns == {"/login"}

\* what the fetch of blacklist.json can give: a response that is ok with the
\* rules of the file, a response that is not ok, a rejection, a body that is
\* not JSON
RuleFiles ==
  { [fetch |-> "ok", domains |-> d, patterns |-> p] :
      d \in { <<>>, <<"example.com">>, <<"example.com", "example.com">> },
      p \in { <<>>, <<"/login">> } }
    \cup { [fetch |-> f, domains |-> <<>>, patterns |-> <<>>] :
             f \in {"not ok", "rejected", "not json"} }

\* the override records in storage when the page opens
StoredOverrides ==
  { NoOverrides,
    [null |-> FALSE, domains |-> <<"ads.com">>, patterns |-> <<>>],
    [null |-> FALSE, domains |-> <<"example.com">>, patterns |-> <<"/login">>] }

\* the urls matches is compared on
RuleUrls == {"https://example.com/", "http://ads.com/", "https://site.com/app/login?x=1"}

InitRules ==
  /\ pc = "Blacklist"
  /\ blacklist = NoRules
  /\ argUrl = ""
  /\ result = NotReturned
  /\ FeedNotStarted
  /\ StatsNotStarted
  /\ ChatNotStarted
  /\ GatewayNotStarted
  /\ ruleFile \in RuleFiles
  /\ overrides \in StoredOverrides
  /\ ruleOps = <<>>
  /\ ruleCalls = NoRuleCalls

\* a method call may be made
CanCall == ruleCalls.edits + ruleCalls.loads < MaxRuleCalls

\* a method of the instance suspended on an await
Suspended(op, arg, stage) == [op |-> op, arg |-> arg, stage |-> stage, stored |-> NoOverrides]

\* what no call changes before its first await
CallFrame ==
  UNCHANGED << pc, blacklist, overrides, ruleFile, argUrl, result,
               feedVars, statsVars, chatVars, gatewayVars >>

\* load() up to await fetch(url)
CallLoad ==
  /\ CanCall
  /\ ruleOps' = Append(ruleOps, Suspended("load", "", "fetch"))
  /\ ruleCalls' = [ruleCalls EXCEPT !.loads = @ + 1]
  /\ CallFrame

\* addDomain(domain) up to await this._loadFromStorage()
CallAddDomain ==
  /\ CanCall
  /\ \E domain \in EditDomains :
       ruleOps' = Append(ruleOps, Suspended("addDomain", domain, "_loadFromStorage"))
  /\ ruleCalls' = [ruleCalls EXCEPT !.edits = @ + 1]
  /\ CallFrame

\* removeDomain(domain) up to await this._loadFromStorage()
CallRemoveDomain ==
  /\ CanCall
  /\ \E domain \in EditDomains :
       ruleOps' = Append(ruleOps, Suspended("removeDomain", domain, "_loadFromStorage"))
  /\ ruleCalls' = [ruleCalls EXCEPT !.edits = @ + 1]
  /\ CallFrame

\* addPattern(pattern) up to await this._loadFromStorage()
CallAddPattern ==
  /\ CanCall
  /\ \E pattern \in EditPatterns :
       ruleOps' = Append(ruleOps, Suspended("addPattern", pattern, "_loadFromStorage"))
  /\ ruleCalls' = [ruleCalls EXCEPT !.edits = @ + 1]
  /\ CallFrame

\* removePattern(pattern) up to await this._loadFromStorage()
CallRemovePattern ==
  /\ CanCall
  /\ \E pattern \in EditPatterns :
       ruleOps' = Append(ruleOps, Suspended("removePattern", pattern, "_loadFromStorage"))
  /\ ruleCalls' = [ruleCalls EXCEPT !.edits = @ + 1]
  /\ CallFrame

\* clearStorage() up to await chrome.storage.local.remove(...)
CallClearStorage ==
  /\ CanCall
  /\ ruleOps' = Append(ruleOps, Suspended("clearStorage", "", "remove"))
  /\ ruleCalls' = [ruleCalls EXCEPT !.loads = @ + 1]
  /\ CallFrame

\* what no step of a method changes
RuleStepFrame ==
  UNCHANGED << pc, ruleFile, ruleCalls, argUrl, result,
               feedVars, statsVars, chatVars, gatewayVars >>

\* load(): the fetch and response.json() have settled.  A response that is
\* ok replaces the rules by those of the file and one that is not ok leaves
\* them; both go on to this._loadFromStorage().  A rejection ends load() in
\* its catch block.
LoadFetched ==
  \E i \in 1..Len(ruleOps) :
    /\ ruleOps[i].op = "load"
    /\ ruleOps[i].stage = "fetch"
    /\ blacklist' = IF ruleFile.fetch = "ok"
                      THEN Rules(ruleFile.domains, ruleFile.patterns)
                    ELSE blacklist
    /\ ruleOps' = IF ruleFile.fetch \in {"ok", "not ok"}
                    THEN [ruleOps EXCEPT ![i].stage = "_loadFromStorage"]
                  ELSE RemoveAt(ruleOps, i)
    /\ UNCHANGED overrides
    /\ RuleStepFrame

\* the merge of load() with the record read from storage
Merged(rules, stored) ==
  IF stored.null THEN rules
  ELSE Rules(Unique(rules.domains \o stored.domains),
             Unique(rules.patterns \o stored.patterns))

\* load(): this._loadFromStorage() has resolved
LoadStorageRead ==
  \E i \in 1..Len(ruleOps) :
    /\ ruleOps[i].op = "load"
    /\ ruleOps[i].stage = "_loadFromStorage"
    /\ blacklist' = Merged(blacklist, overrides)
    /\ ruleOps' = RemoveAt(ruleOps, i)
    /\ UNCHANGED overrides
    /\ RuleStepFrame

\* this._loadFromStorage() || { domains: [], patterns: [] }
StoredOrEmpty == [overrides EXCEPT !.null = FALSE]

\* the record an edit passes to save(), from the record it read
Edited(op, arg, stored) ==
  CASE op = "addDomain" -> [stored EXCEPT !.domains = Append(@, arg)]
    [] op = "addPattern" -> [stored EXCEPT !.patterns = Append(@, arg)]
    [] op = "removeDomain" -> [stored EXCEPT !.domains = Without(@, arg)]
    [] op = "removePattern" -> [stored EXCEPT !.patterns = Without(@, arg)]

\* addDomain and addPattern return when the record read has the value
AlreadyStored(op, arg, stored) ==
  \/ op = "addDomain" /\ Includes(stored.domains, arg)
  \/ op = "addPattern" /\ Includes(stored.patterns, arg)

\* an edit: this._loadFromStorage() has resolved, save(stored) is called
EditStorageRead ==
  \E i \in 1..Len(ruleOps) :
    /\ ruleOps[i].op \in {"addDomain", "addPattern", "removeDomain", "removePattern"}
    /\ ruleOps[i].stage = "_loadFromStorage"
    /\ ruleOps' = IF AlreadyStored(ruleOps[i].op, ruleOps[i].arg, StoredOrEmpty)
                    THEN RemoveAt(ruleOps, i)
                  ELSE [ruleOps EXCEPT
                          ![i].stage = "save",
                          ![i].stored = Edited(ruleOps[i].op, ruleOps[i].arg, StoredOrEmpty)]
    /\ UNCHANGED << blacklist, overrides >>
    /\ RuleStepFrame

\* the update of this.rules that follows await this.save(stored)
EditedRules(op, arg, rules) ==
  CASE op = "addDomain" -> [rules EXCEPT !.domains = Append(@, arg)]
    [] op = "addPattern" -> [rules EXCEPT !.patterns = Append(@, arg)]
    [] op = "removeDomain" -> [rules EXCEPT !.domains = Without(@, arg)]
    [] op = "removePattern" -> [rules EXCEPT !.patterns = Without(@, arg)]

\* an edit: save(stored) has resolved
EditSaved ==
  \E i \in 1..Len(ruleOps) :
    /\ ruleOps[i].stage = "save"
    /\ overrides' = ruleOps[i].stored
    /\ blacklist' = EditedRules(ruleOps[i].op, ruleOps[i].arg, blacklist)
    /\ ruleOps' = RemoveAt(ruleOps, i)
    /\ RuleStepFrame

\* clearStorage(): the remove has resolved, load() is called
StorageRemoved ==
  \E i \in 1..Len(ruleOps) :
    /\ ruleOps[i].stage = "remove"
    /\ overrides' = NoOverrides
    /\ ruleOps' = [ruleOps EXCEPT ![i].op = "load", ![i].stage = "fetch"]
    /\ UNCHANGED blacklist
    /\ RuleStepFrame

NextRules ==
  \/ CallLoad
  \/ CallAddDomain
  \/ CallRemoveDomain
  \/ CallAddPattern
  \/ CallRemovePattern
  \/ CallClearStorage
  \/ LoadFetched
  \/ LoadStorageRead
  \/ EditStorageRead
  \/ EditSaved
  \/ StorageRemoved

SpecRules == InitRules /\ [][NextRules]_vars

\* the methods called one at a time: each call is made when the one before
\* it has finished
NextRulesInTurn ==
  \/ ruleOps = <<>> /\ CallLoad
  \/ ruleOps = <<>> /\ CallAddDomain
  \/ ruleOps = <<>> /\ CallRemoveDomain
  \/ ruleOps = <<>> /\ CallAddPattern
  \/ ruleOps = <<>> /\ CallRemovePattern
  \/ ruleOps = <<>> /\ CallClearStorage
  \/ LoadFetched
  \/ LoadStorageRead
  \/ EditStorageRead
  \/ EditSaved
  \/ StorageRemoved

SpecRulesInTurn == InitRules /\ [][NextRulesInTurn]_vars

-----------------------------------------------------------------------------
(* Feed paginator properties (specification Spec)                          *)

\* the cards in the feed, in document order
RECURSIVE Flatten(_)
Flatten(batches) ==
  IF batches = <<>> THEN <<>> ELSE Head(batches) \o Flatten(Tail(batches))

Min(a, b) == IF a <= b THEN a ELSE b

\* a step in which loadMoreHistory was invoked
Invoked == invocations' # invocations

\* C1: a loadMoreHistory invocation made while an earlier one is loading
\* changes neither the cursor nor the feed and issues no getVisits call, so
\* at most one batch is in flight and it is the batch at the current offset.
C1_GuardWhileLoading ==
  /\ [](/\ Len(pending) <= 1
        /\ state.isLoading <=> pending # <<>>
        /\ pending # <<>> => pending[1] = getHistoryBatch(state.currentOffset, batchSize))
  /\ [][ (Invoked /\ state.isLoading) =>
           /\ state' = state
           /\ pending' = pending
           /\ getVisitsCalls' = getVisitsCalls
           /\ feed' = feed /\ emptyShown' = emptyShown ]_vars

\* two invocations, the second made while the first was loading: one batch
\* of lookups issued
C1_Witness ==
  /\ invocations = 2
  /\ lastReturn = "guard: isLoading"
  /\ state.isLoading
  /\ Len(pending) = 1
  /\ getVisitsCalls = Len(pending[1])

\* C2: once hasMore is false, a loadMoreHistory invocation serves nothing,
\* leaves currentOffset, hasMore and isLoading as they are and issues no
\* getVisits call.
C2_ExhaustedIdempotent ==
  [][ (Invoked /\ ~state.hasMore) =>
        /\ state' = state
        /\ pending' = pending
        /\ getVisitsCalls' = getVisitsCalls
        /\ feed' = feed /\ emptyShown' = emptyShown ]_vars

\* an invocation made after the list was consumed
C2_Witness ==
  /\ ~state.hasMore
  /\ ~state.isLoading
  /\ lastReturn = "guard: !hasMore"
  /\ Len(feed) = 2
  /\ invocations = 3

\* C3: the cards rendered so far are exactly the first currentOffset items
\* of the filtered list, in order; a render moves the offset forward and
\* only appends.
C3_RenderedIsPrefix ==
  /\ [](LET rendered == Flatten(feed)
        IN  /\ Len(rendered) = state.currentOffset
            /\ state.currentOffset <= Len(state.allHistory)
            /\ \A k \in 1..Len(rendered) :
                 /\ rendered[k].id = state.allHistory[k].id
                 /\ rendered[k].url = state.allHistory[k].url
                 /\ rendered[k].lastVisitTime = state.allHistory[k].lastVisitTime)
  /\ [][ feed' # feed =>
           /\ state'.currentOffset > state.currentOffset
           /\ SubSeq(feed', 1, Len(feed)) = feed ]_vars

\* two batches rendered although a batch had to be fetched again after a
\* rejected lookup
C3_Witness ==
  /\ Len(feed) = 2
  /\ pending = <<>>
  /\ getVisitsCalls > state.currentOffset

\* C4: the k-th rendered batch has min(b, n - (k-1)*b) items; after a
\* rendered batch hasMore is false exactly when currentOffset equals n; with
\* n = 0 the first invocation renders nothing and sets hasMore to false.
C4_BatchSizes ==
  LET n == Len(state.allHistory)
  IN  /\ \A k \in 1..Len(feed) : Len(feed[k]) = Min(batchSize, n - (k - 1) * batchSize)
      /\ Len(feed) >= 1 => (~state.hasMore <=> state.currentOffset = n)
      /\ (invocations >= 1 /\ n = 0) => (~state.hasMore /\ feed = <<>> /\ emptyShown = 1)

\* 25 kept records: batches of 20 and 5, exhausted after the second, and a
\* third invocation that returns at the guard
C4_Witness ==
  /\ Len(state.allHistory) = 25
  /\ Len(feed) = 2
  /\ Len(feed[1]) = 20 /\ Len(feed[2]) = 5
  /\ ~state.hasMore
  /\ invocations = 3
  /\ lastReturn = "guard: !hasMore"

\* C5: right after loadAllHistory the filtered list holds exactly the
\* returned records that matches is false for, by descending lastVisitTime,
\* filteredCount is the number of returned records matches is true for, and
\* the two add up to the number of returned records.
C5_FilterPartition ==
  pc = "loadMoreHistory" =>
    LET kept == state.allHistory
        blacklisted == { i \in 1..Len(searchResult) : matches(blacklist, searchResult[i].url) }
    IN  /\ \A k \in 1..Len(kept) : ~matches(blacklist, kept[k].url)
        /\ \A j, k \in 1..Len(kept) : j < k => kept[j].lastVisitTime >= kept[k].lastVisitTime
        /\ \A i \in 1..Len(searchResult) :
             Cardinality({ k \in 1..Len(kept) : kept[k] = searchResult[i] })
               = IF i \in blacklisted THEN 0 ELSE 1
        /\ state.filteredCount = Cardinality(blacklisted)
        /\ Len(kept) + state.filteredCount = Len(searchResult)

\* three example.com records and two others under the rule example.com
C5_Witness ==
  /\ pc = "loadMoreHistory"
  /\ blacklist = Rules(<<"example.com">>, <<>>)
  /\ Len(searchResult) = 5
  /\ Len(state.allHistory) = 2
  /\ state.filteredCount = 3

\* C6: no record whose url does not parse is in the filtered list or in a
\* rendered batch, and no render fails on one.
C6_InvalidUrlsExcluded ==
  /\ \A k \in 1..Len(state.allHistory) : ParseURL(Chars(state.allHistory[k].url)).ok
  /\ \A i \in 1..Len(pending) : ~RenderCardsThrows(pending[i])

-----------------------------------------------------------------------------
(* Rule matcher properties (specification SpecMatcher)                     *)

\* the url of the run parsed, and the strings matches compares rules with
ArgParsed == ParseURL(Chars(argUrl))

ArgHostname == toLowerCase(ArgParsed.hostname)

ArgFullUrl == toLowerCase(Chars(argUrl))

\* one domain rule, tested alone, matches the hostname
DomainRuleMatches(hostname, rule) ==
  LET r == _matchDomain(hostname, toLowerCase(Chars(rule)))
  IN  ~r.threw /\ r.value

\* one pattern rule, tested alone, matches the url
PatternRuleMatches(fullUrl, rule) ==
  LET r == _matchPattern(fullUrl, toLowerCase(Chars(rule)))
  IN  ~r.threw /\ r.value

\* C7: for a url that parses, matches is true iff some domain rule matches
\* its lowercased hostname or some pattern rule matches the lowercased url.
C7_MatcherDisjunction ==
  (result.returned /\ ArgParsed.ok) =>
    result.value =
      ( \/ \E i \in 1..Len(blacklist.domains) : DomainRuleMatches(ArgHostname, blacklist.domains[i])
        \/ \E j \in 1..Len(blacklist.patterns) : PatternRuleMatches(ArgFullUrl, blacklist.patterns[j]) )

\* C8: under a rule set that holds one wildcard-free domain rule h and
\* nothing else, matches is true exactly for the urls whose hostname is h,
\* letter case aside.
C8_ExactDomainAnchored ==
  ( /\ result.returned
    /\ ArgParsed.ok
    /\ blacklist.patterns = <<>>
    /\ Len(blacklist.domains) = 1
    /\ ~HasWildcard(Chars(blacklist.domains[1])) ) =>
    result.value = (toLowerCase(ArgParsed.hostname) = toLowerCase(Chars(blacklist.domains[1])))

\* the rule Example.COM applied to a url of example.com
C8_Witness ==
  /\ result.returned
  /\ result.value
  /\ blacklist = Rules(<<"Example.COM">>, <<>>)
  /\ argUrl = "https://example.com/"

\* glob match of the whole of s from position j against p from position i:
\* "*" stands for any run of characters, every other character for itself
RECURSIVE GlobFrom(_, _, _, _)
GlobFrom(p, i, s, j) ==
  IF i > Len(p) THEN j > Len(s)
  ELSE IF p[i] = "*"
    THEN GlobFrom(p, i + 1, s, j) \/ (j <= Len(s) /\ GlobFrom(p, i, s, j + 1))
    ELSE j <= Len(s) /\ s[j] = p[i] /\ GlobFrom(p, i + 1, s, j + 1)

\* C9: under a rule set that holds one wildcard domain rule and nothing
\* else, matches is true exactly for the urls whose whole hostname matches
\* the rule as a glob.
C9_WildcardDomainGlob ==
  ( /\ result.returned
    /\ ArgParsed.ok
    /\ blacklist.patterns = <<>>
    /\ Len(blacklist.domains) = 1
    /\ HasWildcard(Chars(blacklist.domains[1])) ) =>
    result.value = GlobFrom(toLowerCase(Chars(blacklist.domains[1])), 1, ArgHostname, 1)

\* p occurs in s as a contiguous run of characters
IsSubstring(p, s) ==
  \E i \in 1..(Len(s) + 1) :
    /\ i + Len(p) - 1 <= Len(s)
    /\ SubSeq(s, i, i + Len(p) - 1) = p

\* C10: under a rule set of wildcard-free pattern rules only, matches is
\* true for a url that parses iff some lowercased rule is a substring of
\* the lowercased url.
C10_PlainPatternSubstring ==
  ( /\ result.returned
    /\ ArgParsed.ok
    /\ blacklist.domains = <<>>
    /\ \A j \in 1..Len(blacklist.patterns) : ~HasWildcard(Chars(blacklist.patterns[j])) ) =>
    result.value =
      (\E j \in 1..Len(blacklist.patterns) :
         IsSubstring(toLowerCase(Chars(blacklist.patterns[j])), toLowerCase(Chars(argUrl))))

\* the rule /login applied to a url with /login in its path
C10_Witness ==
  /\ result.returned
  /\ result.value
  /\ blacklist = Rules(<<>>, <<"/login">>)
  /\ argUrl = "https://site.com/app/login?x=1"

\* the url has a query parameter of the given name: the name and "=" stand
\* right after the "?" that opens the query or right after a "&" within it
HasQueryParam(url, name) ==
  \E q \in 1..Len(url) :
    /\ url[q] = "?"
    /\ \A k \in 1..(q - 1) : url[k] # "?"
    /\ \E i \in (q + 1)..Len(url) :
         /\ i = q + 1 \/ url[i - 1] = "&"
         /\ StartsWithAt(url, i, name \o <<"=">>)

UtmSource == <<"u","t","m","_","s","o","u","r","c","e">>

\* C11: under the one pattern rule *?utm_source=* matches is true for every
\* url that has a utm_source query parameter, first or later; and a wildcard
\* pattern rule matches exactly the urls that hold, anywhere, a run of
\* characters matching the rule as a glob in which only "*" is special.
C11_UtmSourcePattern ==
  ( /\ result.returned
    /\ ArgParsed.ok
    /\ blacklist.domains = <<>>
    /\ Len(blacklist.patterns) = 1
    /\ HasWildcard(Chars(blacklist.patterns[1])) ) =>
    LET rule == toLowerCase(Chars(blacklist.patterns[1]))
    IN  /\ (blacklist.patterns[1] = "*?utm_source=*" /\ HasQueryParam(ArgFullUrl, UtmSource))
             => result.value
        /\ result.value = GlobFrom(<<"*">> \o rule \o <<"*">>, 1, ArgFullUrl, 1)

\* two strings of the pools differ in the case of their letters at most
SameIgnoringCase(a, b) ==
  LET x == Chars(a)
      y == Chars(b)
  IN  /\ Len(x) = Len(y)
      /\ \A i \in 1..Len(x) : x[i] = y[i] \/ toLowerChar(x[i]) = toLowerChar(y[i])

\* C12: what matches returns for a rule set and a url is what it returns
\* when the letter case of one domain rule, of one pattern rule or of the
\* url's host, path and query is changed.
C12_CaseInsensitive ==
  result.returned =>
    /\ \A i \in 1..Len(blacklist.domains), r \in DomainRulePool :
         (r # blacklist.domains[i] /\ SameIgnoringCase(r, blacklist.domains[i])) =>
           matches(Rules([blacklist.domains EXCEPT ![i] = r], blacklist.patterns), argUrl)
             = result.value
    /\ \A j \in 1..Len(blacklist.patterns), r \in PatternRulePool :
         (r # blacklist.patterns[j] /\ SameIgnoringCase(r, blacklist.patterns[j])) =>
           matches(Rules(blacklist.domains, [blacklist.patterns EXCEPT ![j] = r]), argUrl)
             = result.value
    /\ \A u \in UrlPool :
         (u # argUrl /\ SameIgnoringCase(u, argUrl)) => matches(blacklist, u) = result.value

\* upper-case rules applied to a url with upper-case host, path and query,
\* whose lower-case variants are rules and a url of the pools too
C12_Witness ==
  /\ result.returned
  /\ result.value
  /\ blacklist = Rules(<<"Example.COM">>, <<"/LOGIN">>)
  /\ argUrl = "https://Site.COM/App/LOGIN?X=1"
  /\ Rules(<<"example.com">>, <<"/login">>) \in RuleSets
  /\ "https://site.com/app/login?x=1" \in UrlPool

\* C13: for a url that does not parse matches returns false, whatever the
\* rule set (the run always ends with a returned value, never a raised error).
C13_FailOpen ==
  (result.returned /\ ~ArgParsed.ok) => result.value = FALSE

\* an unparsable string that holds the pattern rule /login as a substring
C13_Witness ==
  /\ result.returned
  /\ ~result.value
  /\ argUrl = "not a url/login"
  /\ blacklist = Rules(<<>>, <<"/login">>)
  /\ IsSubstring(Chars("/login"), Chars(argUrl))

-----------------------------------------------------------------------------
(* Root-domain properties (specification SpecRootDomain)                   *)

\* the positions of the dots of hostname h
Dots(h) == { i \in 1..Len(h) : h[i] = "." }

\* the last k labels of h with their dots: what follows the k-th dot from
\* the right, all of h when it has fewer than k dots
LastLabels(h, k) ==
  IF Cardinality(Dots(h)) < k THEN h
  ELSE LET cut == CHOOSE i \in Dots(h) : Cardinality({ j \in Dots(h) : j >= i }) = k
       IN  SubSeq(h, cut + 1, Len(h))

\* the second-to-last label of a hostname with two labels or more
SecondToLastLabel(h) ==
  LET two == LastLabels(h, 2)
  IN  SubSeq(two, 1, IndexOfAny(two, {"."}, 1) - 1)

-----------------------------------------------------------------------------
(* Statistics properties (specification SpecStats)                         *)

\* C15: in every aggregate of state.domainData the typed and the clicked
\* visits add up to visitCount.
C15_TypedPlusClicked ==
  \A k \in 1..Len(statsState.domainData) :
    statsState.domainData[k].typedCount + statsState.domainData[k].clickedCount
      = statsState.domainData[k].visitCount

Abs(x) == IF x < 0 THEN -x ELSE x

\* the kept records processDomainData was given that have a root domain
WithRootDomain(historyItems) ==
  { i \in 1..Len(historyItems) :
      LET domain == getRootDomain(Chars(historyItems[i].url))
      IN  ~domain.null /\ domain.value # <<>> }

\* C16: the percentage of every aggregate is the tenth nearest to
\* 100 * visitCount / T, where T is the number of all kept records given to
\* processDomainData, those with an unparsable url included.
C16_Percentage ==
  processed.done =>
    LET T == Len(processed.historyItems)
    IN  \A k \in 1..Len(statsState.domainData) :
          LET e == statsState.domainData[k]
          IN  2 * Abs(e.percentage * T - 1000 * e.visitCount) <= T

\* two of three kept records are of one domain, the third does not parse:
\* 66.7 per cent
C16_Witness ==
  /\ processed.done
  /\ Len(processed.historyItems) = 3
  /\ Cardinality(WithRootDomain(processed.historyItems)) = 2
  /\ Len(statsState.domainData) = 1
  /\ statsState.domainData[1].visitCount = 2
  /\ statsState.domainData[1].percentage = 667

\* C17: state.domainData has one entry per distinct root domain of the kept
\* records, its visitCounts never increase along the list, and the domain
\* shown as top domain is the first entry, whose visitCount is the maximum.
C17_SortedOnePerDomain ==
  processed.done =>
    LET d     == statsState.domainData
        roots == { getRootDomain(Chars(processed.historyItems[i].url)).value :
                     i \in WithRootDomain(processed.historyItems) }
    IN  /\ { d[k].domain : k \in 1..Len(d) } = roots
        /\ Len(d) = Cardinality(roots)
        /\ \A j, k \in 1..Len(d) : j < k => d[j].visitCount >= d[k].visitCount
        /\ Len(d) > 0 =>
             /\ summary.topDomain = d[1].domain
             /\ \A k \in 1..Len(d) : d[1].visitCount >= d[k].visitCount

\* example.co.uk is met first with one record, example.com later with two,
\* and example.com is the top domain
C17_Witness ==
  /\ processed.done
  /\ Len(processed.historyItems) = 3
  /\ processed.historyItems[1].url = "https://www.example.co.uk/"
  /\ Len(statsState.domainData) = 2
  /\ statsState.domainData[1].domain = Chars("example.com")
  /\ statsState.domainData[1].visitCount = 2
  /\ statsState.domainData[2].visitCount = 1
  /\ summary.topDomain = Chars("example.com")

-----------------------------------------------------------------------------
(* Chat properties (specification SpecChat)                                *)

\* C18: clearCurrentChat removes the entry of the current page's url from
\* chatHistories and leaves every other entry as it was; after
\* clearAllChats chatHistories has no entry.
C18_ClearFrame ==
  [][ /\ ClearCurrentChat =>
           /\ DOMAIN chatHistories' = DOMAIN chatHistories \ {chatState.currentPage}
           /\ \A u \in DOMAIN chatHistories' : chatHistories'[u] = chatHistories[u]
      /\ ClearAllChats => DOMAIN chatHistories' = {} ]_vars

\* the chat of one page was cleared while the other page had a stored
\* transcript, which is still there
C18_Witness ==
  /\ chatCalls.lastClear = "clearCurrentChat"
  /\ chatCalls.removed = {"https://example.com/"}
  /\ DOMAIN chatHistories = {"https://example.com/a"}
  /\ Len(chatHistories["https://example.com/a"].messages) >= 1

\* C19: every assistant message in the transcript stored for a page is the
\* response to a message sent from the chat of that page: a response that
\* arrives after its chat was closed is added to no other page's transcript.
C19_ResponseStaysWithItsPage ==
  \A u \in DOMAIN chatHistories :
    \A k \in 1..Len(chatHistories[u].messages) :
      chatHistories[u].messages[k].role = "assistant" =>
        chatHistories[u].messages[k].content = ReplyTo(u)

\* C20: the content stored for a page url is null or the text fetched from
\* that url.
C20_ContentIsOwnPage ==
  \A u \in DOMAIN chatHistories :
    chatHistories[u].content \in {"null"} \cup PageTexts(u)

-----------------------------------------------------------------------------
(* LLM gateway properties (specification SpecGateway)                      *)

NeedsKey == {"openai", "anthropic", "gemini"}

\* sendMessage has failed and no request was issued
FailedBeforeRequest ==
  /\ pc = "settled"
  /\ result.returned
  /\ result.value.threw
  /\ llmRequests = 0

\* C21: sendMessage fails before any request is issued when the provider is
\* openai, anthropic or gemini and no API key is configured, and when the
\* provider is custom and no endpoint is configured; a custom provider with
\* an endpoint and no API key issues its request.
C21_CredentialCheck ==
  pc # "LLMService.sendMessage" =>
    /\ (llmConfig.provider \in NeedsKey /\ llmConfig.apiKey = "") => FailedBeforeRequest
    /\ (llmConfig.provider = "custom" /\ llmConfig.endpoint = "") => FailedBeforeRequest
    /\ (llmConfig.provider = "custom" /\ llmConfig.endpoint # "" /\ llmConfig.apiKey = "")
         => llmRequests = 1

\* sendMessage of a gemini service without an API key has failed
C21_Witness ==
  /\ llmConfig.provider = "gemini"
  /\ llmConfig.apiKey = ""
  /\ FailedBeforeRequest

\* the output the function of the provider reads from the payload
ExpectedOutput(provider, body) ==
  CASE provider = "openai" -> Prop(Prop(First(Prop(body, "choices")), "message"), "content")
    [] provider = "anthropic" -> Prop(First(Prop(body, "content")), "text")
    [] provider = "gemini" ->
         Prop(First(Prop(Prop(First(Prop(body, "candidates")), "content"), "parts")), "text")
    [] provider = "custom" ->
         Or(Prop(body, "response"), Or(Prop(body, "message"), Prop(body, "content")))

\* C22: for every provider, sendMessage fails whenever the upstream response
\* has a non-success status or its payload lacks the expected output.
C22_UpstreamFailures ==
  ( /\ pc = "settled"
    /\ llmResponse.settled = "resolved"
    /\ \/ ~llmResponse.ok
       \/ ExpectedOutput(llmConfig.provider, llmResponse.body).t # "string" )
    => result.value.threw

-----------------------------------------------------------------------------
(* Chat properties, continued (specification SpecChat)                     *)

\* a sendMessage invocation that was suspended finishes in this step
SendMessageFinishes == ConfigWithoutKey \/ LlmResolved \/ LlmRejected

\* C23: however a chat sendMessage ends (assistant reply, provider error,
\* missing credential), no error escapes it and chatState.isTyping is false
\* when it has finished.
C23_SendRecovers ==
  [][ SendMessageFinishes =>
        /\ chatCalls'.escaped = chatCalls.escaped
        /\ ~chatState'.isTyping ]_vars

-----------------------------------------------------------------------------
(* Rule store properties (specification SpecRules)                         *)

Range(items) == { items[k] : k \in 1..Len(items) }

NoDuplicates(items) == \A j, k \in 1..Len(items) : items[j] = items[k] => j = k

\* items holds each value of a and of b once, and nothing else
IsUnion(items, a, b) == NoDuplicates(items) /\ Range(items) = Range(a) \cup Range(b)

\* C24: when load() completes with the bundled file read, the domain rules
\* in memory are the union of the file's domains and the override record's
\* domains with no value twice, and likewise the pattern rules, whether or
\* not an override record exists.
C24_LoadedIsUnion ==
  [][ (LoadStorageRead /\ ruleFile.fetch = "ok") =>
        /\ IsUnion(blacklist'.domains, ruleFile.domains, overrides.domains)
        /\ IsUnion(blacklist'.patterns, ruleFile.patterns, overrides.patterns) ]_vars

\* the instance has been loaded and no reload is under way
Loaded ==
  /\ ruleCalls.loads > 0
  /\ \A i \in 1..Len(ruleOps) : ruleOps[i].op \notin {"load", "clearStorage"}

\* C25: once the instance is loaded, and until the next reload, the result
\* of matches on it changes for no url: the edits addDomain, addPattern,
\* removeDomain and removePattern leave it as it was at load time.
C25_RulesFixedUntilReload ==
  [][ Loaded =>
        \A url \in RuleUrls : matches(blacklist', url) = matches(blacklist, url) ]_vars

-----------------------------------------------------------------------------
(* Chat persistence (specification SpecChat)                                *)

\* the transcripts stored for the pages whose chat is not the current one
\* are left as they are by a step that clears nothing
OtherTranscriptsKept ==
  \A u \in DOMAIN chatHistories :
    u # chatState.currentPage =>
      /\ u \in DOMAIN chatHistories'
      /\ chatHistories'[u] = chatHistories[u]

\* C26: opening the chat of a page that has a stored transcript restores
\* exactly the messages, in their order, and the page content last saved for
\* its url; and what is saved for a url is changed by no step in the chat of
\* another page, clears apart.
C26_ReopenRestores ==
  [][ /\ (OpenChatModal /\ chatState'.currentPage \in DOMAIN chatHistories) =>
           /\ chatState'.messages = chatHistories[chatState'.currentPage].messages
           /\ chatState'.pageContent = chatHistories[chatState'.currentPage].content
      /\ ~(ClearCurrentChat \/ ClearAllChats) => OtherTranscriptsKept ]_vars

-----------------------------------------------------------------------------
(* Visit counts of the feed (specification Spec)                            *)

\* the step is a loadMoreHistory call that reaches its Promise.all
IssuesLookups == Len(pending') > Len(pending)

\* the step is a loadMoreHistory call that renders its batch
ServesBatch == Len(feed') > Len(feed)

\* served is the batch asked, item by item, each with the number of visits
\* that the lookup of its url returned
CarriesLookupResults(served, asked) ==
  /\ Len(served) = Len(asked)
  /\ \A k \in 1..Len(asked) :
       /\ served[k].id = asked[k].id
       /\ served[k].url = asked[k].url
       /\ served[k].visitCount = VisitsLength(asked[k])

\* C27: no getVisits lookup is issued before the first loadMoreHistory; a
\* loadMoreHistory call that has a batch to serve issues one lookup per item
\* of that batch, the slice of allHistory at the current offset, and no step
\* issues any other; the items of a served batch are those of the batch
\* asked, each with visitCount the length of the looked-up visits.
C27_DeferredVisitCounts ==
  [][ /\ pc \in {"blacklist.load", "loadAllHistory"} => getVisitsCalls' = 0
      /\ IF IssuesLookups
           THEN /\ pending' = Append(pending, getHistoryBatch(state.currentOffset, batchSize))
                /\ getVisitsCalls' = getVisitsCalls + Len(pending'[Len(pending')])
         ELSE getVisitsCalls' = getVisitsCalls
      /\ ServesBatch =>
           \E i \in 1..Len(pending) :
             /\ feed' = Append(feed, feed'[Len(feed')])
             /\ pending' = RemoveAt(pending, i)
             /\ CarriesLookupResults(feed'[Len(feed')], pending[i]) ]_vars

\* two batches were served, with items of different visit counts, and the
\* lookups issued are as many as the items served
C27_Witness ==
  /\ Len(feed) = 2
  /\ getVisitsCalls = Len(feed[1]) + Len(feed[2])
  /\ feed[1][1].visitCount # feed[2][1].visitCount

-----------------------------------------------------------------------------
(* Failed visit lookups of the statistics page (specification SpecStats)    *)

\* the urls of the records counted for the domain
UrlsOfDomain(historyItems, domain) ==
  { historyItems[i].url : i \in { j \in 1..Len(historyItems) :
      LET root == RootDomainOf[historyItems[j].url]
      IN  ~root.null /\ root.value = domain } }

\* C28: a processDomainData in which the lookups of some urls were rejected
\* has returned, with an aggregate for every domain, in the order and with
\* the visitCount and percentage that it has when no lookup is rejected, and
\* with the same typedCount and clickedCount for every domain none of whose
\* urls had its lookup rejected.
C28_LookupFailuresRecovered ==
  processed.done =>
    LET actual     == statsState.domainData
        unaffected == processDomainData(processed.historyItems, {})
    IN  /\ Len(actual) = Len(unaffected)
        /\ \A k \in 1..Len(unaffected) :
             /\ actual[k].domain = unaffected[k].domain
             /\ actual[k].visitCount = unaffected[k].visitCount
             /\ actual[k].percentage = unaffected[k].percentage
             /\ UrlsOfDomain(processed.historyItems, unaffected[k].domain)
                    \cap processed.failed = {} =>
                  /\ actual[k].typedCount = unaffected[k].typedCount
                  /\ actual[k].clickedCount = unaffected[k].clickedCount

\* a load has finished in which a lookup was rejected for one domain, whose
\* counts are lower for it, while another domain has its typed visits counted
C28_Witness ==
  /\ processed.done
  /\ processed.failed # {}
  /\ LET unaffected == processDomainData(processed.historyItems, {})
     IN  /\ Len(statsState.domainData) >= 2
         /\ \E k \in 1..Len(statsState.domainData) :
              statsState.domainData[k].typedCount < unaffected[k].typedCount
         /\ \E k \in 1..Len(statsState.domainData) :
              /\ UrlsOfDomain(processed.historyItems, statsState.domainData[k].domain)
                   \cap processed.failed = {}
              /\ statsState.domainData[k].typedCount > 0

\* the fields of a finished aggregate
AggregateFields == {"domain", "visitCount", "typedCount", "clickedCount", "percentage"}

\* C29: state.domainData is empty, or it is what a processDomainData that
\* has returned gave for the records of its load, every entry of it with its
\* counts and its percentage; the chart shows the first topN entries of it
\* and nothing of a load that is suspended.
C29_NoPartialAggregate ==
  /\ \A k \in 1..Len(statsState.domainData) :
       DOMAIN statsState.domainData[k] = AggregateFields
  /\ statsState.domainData # <<>> =>
       /\ processed.done
       /\ statsState.domainData =
            processDomainData(processed.historyItems, processed.failed)
  /\ chart = TopDomains(statsState)

\* a load is suspended on its lookups after another one has finished with two
\* domains or more, and the chart shows the first of them, top-N being 1
C29_Witness ==
  /\ \E i \in 1..Len(loads) :
       /\ loads[i].stage = "processDomainData"
       /\ loads[i].domainMap # <<>>
  /\ processed.done
  /\ Len(statsState.domainData) >= 2
  /\ statsState.topN = 1
  /\ chart = << statsState.domainData[1] >>

-----------------------------------------------------------------------------
(* Records without a domain (specification SpecStats)                       *)

\* whether new URL(url) returns, for each url of the records
Parses == [ url \in StatsUrls |-> ParseURL(Chars(url)).ok ]

\* the kept records with a url that parses
ParsableRecords(historyItems) ==
  { i \in 1..Len(historyItems) : Parses[historyItems[i].url] }

\* the kept records with a url that parses and has a root domain that is
\* not the empty string
RecordsWithDomain(historyItems) ==
  { i \in 1..Len(historyItems) :
      /\ ~RootDomainOf[historyItems[i].url].null
      /\ RootDomainOf[historyItems[i].url].value # <<>> }

\* the sum of visitCount over the aggregates from the k-th on
RECURSIVE SumVisitCount(_, _)
SumVisitCount(domainData, k) ==
  IF k > Len(domainData) THEN 0
  ELSE domainData[k].visitCount + SumVisitCount(domainData, k + 1)

\* C30 as stated: the visitCounts of the aggregates of a finished load add up
\* to the number of the kept records whose url parses, and to the number of
\* all kept records, the denominator, only when every kept url parses.
C30_SumIsParsableRecords ==
  processed.done =>
    LET sum == SumVisitCount(statsState.domainData, 1)
    IN  /\ sum = Cardinality(ParsableRecords(processed.historyItems))
        /\ sum = TotalVisits(processed.historyItems) =>
             \A i \in 1..Len(processed.historyItems) : Parses[processed.historyItems[i].url]

\* C30 amended: the visitCounts of the aggregates of a finished load add up
\* to the number of the kept records whose url parses and has a non-empty
\* root domain; a record whose url does not parse adds to no aggregate, and
\* the sum is the denominator only when every kept url parses.
C30_SumIsRecordsWithDomain ==
  processed.done =>
    LET sum == SumVisitCount(statsState.domainData, 1)
    IN  /\ sum = Cardinality(RecordsWithDomain(processed.historyItems))
        /\ RecordsWithDomain(processed.historyItems)
             \subseteq ParsableRecords(processed.historyItems)
        /\ sum = TotalVisits(processed.historyItems) =>
             \A i \in 1..Len(processed.historyItems) : Parses[processed.historyItems[i].url]

\* a load has finished with three kept records, one whose url does not
\* parse, one whose url parses with an empty hostname, and one counted
C30_Witness ==
  /\ processed.done
  /\ Len(processed.historyItems) = 3
  /\ Cardinality(ParsableRecords(processed.historyItems)) = 2
  /\ Cardinality(RecordsWithDomain(processed.historyItems)) = 1
  /\ SumVisitCount(statsState.domainData, 1) = 1

-----------------------------------------------------------------------------
(* Feed progress (specification SpecProgress)                               *)

\* every item of the filtered list is in the feed, in its place
AllServed ==
  LET rendered == Flatten(feed)
  IN  /\ Len(rendered) = Len(state.allHistory)
      /\ \A k \in 1..Len(rendered) : rendered[k].id = state.allHistory[k].id

\* C31: with every lookup resolving and loadMoreHistory called again whenever
\* the paginator is ready, from the moment the filtered list is loaded the
\* paginator eventually has hasMore false with every item of the list
\* served.
C31_PaginatorProgress ==
  (pc = "loadMoreHistory") ~> (~state.hasMore /\ ~state.isLoading /\ AllServed)

-----------------------------------------------------------------------------
(* Clearing all chats (specification SpecChat)                              *)

\* the store is as clearAllChats left it
JustClearedAll == chatCalls.lastClear = "clearAllChats" /\ DOMAIN chatHistories = {}

\* C32: the first transcript written after clearAllChats has emptied the
\* store holds nothing but the one message that this write adds: no message
\* of a transcript from before the clear is stored again.
C32_ClearAllIsFinal ==
  [][ (JustClearedAll /\ DOMAIN chatHistories' # {}) =>
        \A u \in DOMAIN chatHistories' : Len(chatHistories'[u].messages) <= 1 ]_vars

-----------------------------------------------------------------------------
(* Rule edits (specifications SpecRules and SpecRulesInTurn)                *)

\* every call made has finished
AllFinished == ruleOps = <<>>

\* C33: when two edits and no load were called on the instance and both have
\* finished, whether or not one was started before the other finished, every
\* rule that the edits left in the in-memory rule set is in the persisted
\* override record: no edit's effect is lost to the other's save.
C33_NoLostUpdate ==
  (AllFinished /\ ruleCalls.edits = 2 /\ ruleCalls.loads = 0) =>
    /\ Range(blacklist.domains) \subseteq Range(overrides.domains)
    /\ Range(blacklist.patterns) \subseteq Range(overrides.patterns)

\* C35: after calls made one at a time, a load among them, with a bundled
\* file that was read and lists no rule twice, the rules in memory are the
\* union of the file's rules and the persisted override record's rules, no
\* rule twice.
C35_MemoryIsUnion ==
  (/\ AllFinished
   /\ ruleCalls.loads > 0
   /\ ruleFile.fetch = "ok"
   /\ NoDuplicates(ruleFile.domains)) =>
    /\ IsUnion(blacklist.domains, ruleFile.domains, overrides.domains)
    /\ IsUnion(blacklist.patterns, ruleFile.patterns, overrides.patterns)

-----------------------------------------------------------------------------
(* Overlapping statistics loads (specification SpecStats)                   *)

\* C34: when every load that was started has finished, none of them by a
\* rejected search, state.domainData is the aggregation of the history of
\* the time range that is selected.
C34_LatestSelectionShown ==
  (loads = <<>> /\ processed.done /\ statsCalls.alerts = 0) =>
    statsState.domainData =
      processDomainData(FilterHistory(HistorySearch(statsState.timeRange)), processed.failed)

-----------------------------------------------------------------------------
(* Requests of the chat in flight (specification SpecChat)                  *)

\* the llmService.sendMessage calls of the chat that have not settled
Outstanding ==
  Cardinality({ i \in 1..Len(llmCalls) : llmCalls[i].stage = "llmService.sendMessage" })

\* C36: at most one llmService.sendMessage call of the chat is outstanding,
\* and a sendMessage made while one is outstanding starts no call and leaves
\* every transcript as it is.
C36_SingleRequestInFlight ==
  /\ [](Outstanding <= 1)
  /\ [][ (Outstanding > 0 /\ SendMessage) =>
           /\ llmCalls' = llmCalls
           /\ chatHistories' = chatHistories ]_vars

-----------------------------------------------------------------------------
(* Feed cursor (specification Spec)                                         *)

\* the cursor of the paginator
Cursor(s) == << s.currentOffset, s.hasMore, s.isLoading >>

\* the step is one of loadMoreHistory: a call of it, or its continuation
\* after the await
LoadMoreHistoryStep == Invoked \/ Len(pending') < Len(pending)

\* C37: currentOffset is between 0 and the length of the filtered list and
\* never decreases; with hasMore false it equals that length, and hasMore
\* stays false once it is; currentOffset, hasMore and isLoading are changed
\* by no step that is not one of loadMoreHistory.
C37_CursorInvariant ==
  /\ [](/\ 0 <= state.currentOffset
        /\ state.currentOffset <= Len(state.allHistory)
        /\ ~state.hasMore => state.currentOffset = Len(state.allHistory))
  /\ [][ /\ state'.currentOffset >= state.currentOffset
         /\ ~state.hasMore => ~state'.hasMore
         /\ Cursor(state') # Cursor(state) => LoadMoreHistoryStep ]_vars

\* three batches were served and the third exhausted the list
C37_Witness ==
  /\ Len(feed) = 3
  /\ ~state.hasMore
  /\ ~state.isLoading
  /\ state.currentOffset = Len(state.allHistory)
  /\ state.currentOffset > 2 * batchSize

-----------------------------------------------------------------------------
(* Rule order (specification SpecMatcher)                                  *)

\* every ordering of the rules of one list
Orderings(rules) ==
  LET n == Len(rules)
  IN  { [k \in 1..n |-> rules[p[k]]] :
          p \in { q \in [1..n -> 1..n] : \A a, b \in 1..n : q[a] = q[b] => a = b } }

\* C38: matches returns the same result for every ordering of the domain
\* rules and of the pattern rules, also when a domain rule's wildcard form is
\* not a valid regular expression.
C38_RuleOrderIrrelevant ==
  result.returned =>
    \A d \in Orderings(blacklist.domains), p \in Orderings(blacklist.patterns) :
      matches(Rules(d, p), argUrl) = result.value

=============================================================================
